---- MODULE Spec2Model ----
(***************************************************************************)
(* Model of the Google Life Sciences executor plugin                       *)
(* (snakemake_executor_plugin_google_lifesciences/__init__.py).            *)
(*                                                                         *)
(* The executor is modelled component by component.  Each component has    *)
(* its own specification over the shared variables:                        *)
(*   SpecRetry    - Executor._retry_request                                *)
(*   SpecClassify - Executor._job_was_successful                           *)
(*   SpecPoll     - Executor.check_active_jobs (calls _retry_request)      *)
(*   SpecCancel   - Executor.cancel_jobs       (calls _retry_request)      *)
(*   SpecStore    - source package upload and Executor.shutdown            *)
(***************************************************************************)
EXTENDS Integers, Sequences, FiniteSets, TLC

\* ------------------------------------------------------------------ bounds
\* Largest number of jobs in an active_jobs list.
MaxJobs == 2
\* Largest initial `timeout` argument of _retry_request.
MaxTimeout == 2
\* Largest initial `attempts` argument of _retry_request.
MaxAttempts == 3
\* Longest event sequence of a status payload given to _job_was_successful.
MaxEvents == 3
\* Largest exit status an event carries.
MaxExitStatus == 1
\* Number of distinct working-tree contents that can be packaged.
NumContents == 2
\* Number of distinct temporary archive names tempfile can hand out.
NumTmpNames == 2
\* Largest number of blobs in the bucket before the executor starts.
MaxPreExisting == 1
\* Largest number of packagings in one process.
MaxPackagings == 2

\* ------------------------------------------------------- program constants
\* def _retry_request(self, request, timeout=2, attempts=3)
DefaultTimeout == 2
DefaultAttempts == 3

VARIABLES
    \* _retry_request: the request being executed, the recursion's call
    \* stack (one frame per activation, holding its timeout and attempts),
    \* the position of the innermost activation, the history of
    \* request.execute() and time.sleep() calls of the current outermost
    \* call, and what the call returns or raises.
    request, stack, rpc, trace, result,
    \* check_active_jobs / cancel_jobs: the list given, the index of the
    \* job of the current iteration, the position in the loop, the local
    \* variable `status`, the reports made (success, error, yielded as
    \* active; for cancel_jobs the outcome of each job's cancel call), the
    \* payload the last judgement used, the number of
    \* status_rate_limiter permits taken, the jobs whose remote operation
    \* is already terminal, the jobs for which cancel was requested.
    active_jobs, idx, pc, status, reports, judged, permits, terminal, cancelled,
    \* _job_was_successful: the status payload given and the verdict.
    cstatus, verdict,
    \* source package cache: the bucket's blob names, self._build_packages,
    \* the files in persistence.aux_path, the blob names this run wrote,
    \* self._save_storage_cache, self.pipeline_package, the path returned
    \* by _generate_build_source_package, the position, and the number of
    \* packagings done, self.workflow_sources, and the file name the
    \* packaging error reports.
    store, build_packages, aux_files, uploaded, save_storage_cache,
    pipeline_package, targz, spc, packagings, workflow_sources, package_error,
    \* resource planning: the job given to _generate_job_resources,
    \* self.regions, the provider's zones with the machine types each lists,
    \* the accelerator types the provider lists for the zone of the machine
    \* types, the attributes self.preemptible_rules,
    \* self.machine_type_prefix and self._machine_type_prefix, the
    \* nvidia_gpu entry of the workflow's default resources, and what
    \* _generate_job_resources returned or raised, and what
    \* get_available_machine_types returned or raised.
    job, regions, zones, accelerators, preemptible_rules, machine_type_prefix,
    _machine_type_prefix, default_resources, plan, available_machine_types,
    \* startup and run_job: the locations the Life Sciences API lists,
    \* executor_settings.location, self.location, the requests executed
    \* outside _retry_request, job.needs_singularity,
    \* deployment_settings.use_singularity, the position of the executor,
    \* the job infos given to report_job_submission, the exception that
    \* left __init__ or run_job, and the history of the planning calls.
    locations, user_location, location, direct_requests, needs_singularity,
    use_singularity, phase, submitted, run_error, planned,
    \* repeated polling: the state of each submitted job as the caller of
    \* check_active_jobs sees it, and how often each was reported
    \* successful or as an error; concurrent run_job calls: the job of each
    \* call, the position of each call in _generate_job_resources, and
    \* what each call's planning returned or raised.
    lifecycle, terminal_reports, pjobs, ppos, pplans

retryVars == <<request, stack, rpc, trace, result>>
jobVars == <<active_jobs, idx, pc, status, reports, judged, permits, terminal, cancelled>>
classifyVars == <<cstatus, verdict>>
storeVars == <<store, build_packages, aux_files, uploaded, save_storage_cache,
               pipeline_package, targz, spc, packagings, workflow_sources,
               package_error>>
planVars == <<job, regions, zones, accelerators, preemptible_rules,
              machine_type_prefix, _machine_type_prefix, default_resources, plan,
              available_machine_types>>
runVars == <<locations, user_location, location, direct_requests,
             needs_singularity, use_singularity, phase, submitted, run_error,
             planned>>
auxVars == <<lifecycle, terminal_reports, pjobs, ppos, pplans>>
vars == <<retryVars, jobVars, classifyVars, storeVars, planVars, runVars, auxVars>>

\* ------------------------------------------------------ remote responses
\* Lifecycle events of an operation (metadata.events).  `failed` and
\* `unexpectedExitStatus` say whether the event has that key; exitStatus is
\* unexpectedExitStatus.exitStatus (0 when the key is absent).
Event(f, u, x) == [failed |-> f, unexpectedExitStatus |-> u, exitStatus |-> x]
FailedEvent == Event(TRUE, FALSE, 0)
ExitEvent(x) == Event(FALSE, TRUE, x)

\* A response body of operations.get: done and metadata.events.
Payload(d, evs) == [done |-> d, events |-> evs]
EmptyBody == Payload(FALSE, <<>>)

\* The status payloads the remote service answers operations.get with.
GetBodies ==
    { Payload(d, evs) : d \in BOOLEAN,
      evs \in { <<>>, <<ExitEvent(0)>>, <<FailedEvent>>, <<ExitEvent(1), ExitEvent(0)>> } }

\* What request.execute() does: returns a body, or raises.
Ok(b) == [kind |-> "ok", status |-> 200, body |-> b]
HttpError(s) == [kind |-> "HttpError", status |-> s, body |-> EmptyBody]
BrokenPipeError == [kind |-> "BrokenPipeError", status |-> 0, body |-> EmptyBody]
NoOutcome == [kind |-> "none", status |-> 0, body |-> EmptyBody]

\* The response body of pipelines.run: the operation created, with the
\* name the service gave it ("projects/../locations/../operations/<id>").
Operation(n) == [name |-> n, done |-> FALSE]
OperationNames == { <<"p", "/", "o", "/", "7">>, <<"p", "/", "8">>, <<"9">> }

Request(m, n) == [method |-> m, name |-> n]
NoRequest == Request("none", 0)

\* The outcomes the remote service can give to one execution of a request.
Outcomes(req) ==
    CASE req.method = "operations.get" ->
           { Ok(b) : b \in GetBodies }
             \cup { HttpError(s) : s \in {403, 404, 500} } \cup { BrokenPipeError }
      [] req.method = "operations.cancel" ->
           { Ok(EmptyBody) }
             \cup { HttpError(s) : s \in (IF req.name \in terminal THEN {400} ELSE {}) \cup {404, 500} }
             \cup { BrokenPipeError }
      [] req.method = "pipelines.run" ->
           { Ok(Operation(n)) : n \in OperationNames }
             \cup { HttpError(s) : s \in {403, 500} } \cup { BrokenPipeError }
      [] OTHER ->
           { Ok(Payload(d, <<>>)) : d \in BOOLEAN }
             \cup { HttpError(s) : s \in {400, 403, 404, 500} } \cup { BrokenPipeError }

\* ----------------------------------------------------------- _retry_request
Frame(t, a) == [timeout |-> t, attempts |-> a]
Top == stack[Len(stack)]

ExecEntry(out) == [op |-> "execute", out |-> out, t |-> 0]
SleepEntry(t) == [op |-> "sleep", out |-> NoOutcome, t |-> t]

NoResult == [kind |-> "none", out |-> NoOutcome]
Returned(out) == [kind |-> "value", out |-> out]
\* An exception of request.execute() that leaves _retry_request as it is.
Raised(out) == [kind |-> out.kind, out |-> out]
WorkflowError(cause) == [kind |-> "WorkflowError", out |-> cause]

\* Failures of the kind the spec calls not retryable (malformed request,
\* permission denied, not found).
NonRetryable(out) == out.kind = "HttpError" /\ out.status \in {400, 403, 404}

\* `except Exception as ex`: every exception of request.execute() is caught.
Catches(out) == TRUE

\* `if attempts > 0:` decides between sleeping and giving up.
AttemptsLeft(frame) == frame.attempts > 0

FirstFailure(tr, ex) == tr[1].out
\* `raise WorkflowError(ex)`: ex is the exception of this activation's execute().
WrappedCause(tr, ex) == ex

SameTimeout(frame) == Frame(frame.timeout, frame.attempts - 1)
\* The recursive call's arguments: timeout=timeout * 2, attempts=attempts - 1.
NextFrame(frame) == Frame(frame.timeout * 2, frame.attempts - 1)

\* The call self._retry_request(req, timeout=t, attempts=a).
RetryStart(req, t, a) ==
    /\ request' = req
    /\ stack' = <<Frame(t, a)>>
    /\ rpc' = "execute"
    /\ trace' = <<>>
    /\ result' = NoResult

\* try: return request.execute() / except Exception as ex: ...
RetryExecute ==
    /\ rpc = "execute"
    /\ \E out \in Outcomes(request) :
         /\ trace' = Append(trace, ExecEntry(out))
         /\ IF out.kind = "ok"
              THEN rpc' = "return" /\ result' = Returned(out)
              ELSE IF ~Catches(out)
                THEN rpc' = "raise" /\ result' = Raised(out)
                ELSE IF AttemptsLeft(Top)
                  THEN rpc' = "sleep" /\ result' = NoResult
                  ELSE /\ rpc' = "raise"
                       /\ result' = WorkflowError(WrappedCause(trace', out))
    /\ UNCHANGED <<request, stack>>

\* time.sleep(timeout), then the recursive call.
RetrySleep ==
    /\ rpc = "sleep"
    /\ trace' = Append(trace, SleepEntry(Top.timeout))
    /\ stack' = Append(stack, NextFrame(Top))
    /\ rpc' = "execute"
    /\ UNCHANGED <<request, result>>

\* The recursive call was made in the except clause, outside the try: its
\* value is returned, and what it raises passes through uncaught.
RetryUnwind ==
    /\ rpc \in {"return", "raise"}
    /\ Len(stack) > 1
    /\ stack' = SubSeq(stack, 1, Len(stack) - 1)
    /\ UNCHANGED <<request, rpc, trace, result>>

\* The outermost call has returned or raised.
RetryDone == rpc \in {"return", "raise"} /\ Len(stack) = 1

\* History of the current call.
Executions(tr) == SelectSeq(tr, LAMBDA e : e.op = "execute")
Sleeps(tr) == SelectSeq(tr, LAMBDA e : e.op = "sleep")
NumExec(tr) == Len(Executions(tr))
Failed(e) == e.op = "execute" /\ e.out.kind # "ok"

RECURSIVE Pow2(_)
Pow2(n) == IF n = 0 THEN 1 ELSE 2 * Pow2(n - 1)

\* ------------------------------------------------------ planning values
\* An optional value (a resource that may be absent, an attribute that may
\* be None): the empty sequence for absent / None, else <<value>>.
None == <<>>
Some(v) == <<v>>
\* An attribute of the executor object: bound to a value (None or Some(v)),
\* or not bound.  The source reads self.preemptible_rules and
\* self._machine_type_prefix but never assigns them before the read: whether
\* the object has them is left to what the base class and the caller provide.
Attr(v) == [has |-> TRUE, value |-> v]
Unset == [has |-> FALSE, value |-> None]

\* The job given to _generate_job_resources: job.resources (the keys
\* _cores, mem_mb, disk_mb, nvidia_gpu, gpu, gpu_model, machine_type),
\* job.is_group(), and the names of job.rules (of job.rule if not a group).
Job(cores, mem_mb, disk_mb, nvidia_gpu, gpu, gpu_model, machine_type, is_group, rules) ==
    [_cores |-> cores, mem_mb |-> mem_mb, disk_mb |-> disk_mb,
     nvidia_gpu |-> nvidia_gpu, gpu |-> gpu, gpu_model |-> gpu_model,
     machine_type |-> machine_type, is_group |-> is_group, rules |-> rules]
NoJob == Job(None, None, None, None, None, None, None, FALSE, <<>>)

\* What _generate_job_resources returned ("plan") or raised ("error"), with
\* the locals the error messages and the returned dictionary are made from.
PlanResult(kind, error, variant, selected, virtual_machine, accelerator, max_cpu, max_mem) ==
    [kind |-> kind, error |-> error, variant |-> variant, selected |-> selected,
     virtual_machine |-> virtual_machine, accelerator |-> accelerator,
     max_cpu |-> max_cpu, max_mem |-> max_mem]
NoPlan == PlanResult("none", "none", "none", None, None, None, 0, 0)
\* What get_available_machine_types returned ("value", with the machine
\* types in the order of the dictionary) or raised ("error").
NotFetched == [kind |-> "none", items |-> <<>>]

\* ------------------------------------------------- idle states of the parts
RetryIdle ==
    /\ request = NoRequest /\ stack = <<>> /\ rpc = "idle"
    /\ trace = <<>> /\ result = NoResult
JobsIdle ==
    /\ active_jobs = <<>> /\ idx = 0 /\ pc = "idle" /\ status = <<>>
    /\ reports = <<>> /\ judged = <<>> /\ permits = 0 /\ terminal = {}
    /\ cancelled = <<>>
ClassifyIdle == cstatus = EmptyBody /\ verdict = "none"
StoreIdle ==
    /\ store = {} /\ build_packages = {} /\ aux_files = {} /\ uploaded = {}
    /\ save_storage_cache = FALSE /\ pipeline_package = <<>> /\ targz = <<>>
    /\ spc = "idle" /\ packagings = 0
    /\ workflow_sources = <<>> /\ package_error = <<>>
PlanIdle ==
    /\ job = NoJob /\ regions = <<>> /\ zones = <<>> /\ accelerators = <<>>
    /\ preemptible_rules = Unset /\ machine_type_prefix = Unset
    /\ _machine_type_prefix = Unset /\ default_resources = None /\ plan = NoPlan
    /\ available_machine_types = NotFetched
RunIdle ==
    /\ locations = <<>> /\ user_location = None /\ location = Unset
    /\ direct_requests = <<>> /\ needs_singularity = FALSE
    /\ use_singularity = FALSE /\ phase = "idle" /\ submitted = <<>>
    /\ run_error = "none" /\ planned = <<>>
AuxIdle ==
    /\ lifecycle = <<>> /\ terminal_reports = <<>>
    /\ pjobs = <<>> /\ ppos = <<>> /\ pplans = <<>>

\* -------------------------------------------------------------- SpecRetry
InitRetry ==
    /\ \E t \in 1..MaxTimeout, a \in 0..MaxAttempts :
         /\ request = Request("any", 0)
         /\ stack = <<Frame(t, a)>>
         /\ rpc = "execute"
         /\ trace = <<>>
         /\ result = NoResult
    /\ JobsIdle /\ ClassifyIdle /\ StoreIdle /\ PlanIdle /\ RunIdle /\ AuxIdle

NextRetry ==
    \/ RetryExecute /\ UNCHANGED <<jobVars, classifyVars, storeVars, planVars, runVars, auxVars>>
    \/ RetrySleep /\ UNCHANGED <<jobVars, classifyVars, storeVars, planVars, runVars, auxVars>>
    \/ RetryUnwind /\ UNCHANGED <<jobVars, classifyVars, storeVars, planVars, runVars, auxVars>>

SpecRetry == InitRetry /\ [][NextRetry]_vars

\* Claims about _retry_request (checked under SpecRetry).
InitialTimeout == stack[1].timeout
InitialAttempts == stack[1].attempts
LastExecution(tr) == Executions(tr)[NumExec(tr)]
AllFailed(tr) == \A i \in 1..Len(tr) : tr[i].op = "execute" => Failed(tr[i])

\* The operation failed k times and then succeeded.
FailsThenSucceeds(tr, k) ==
    /\ NumExec(tr) = k + 1
    /\ \A i \in 1..k : Executions(tr)[i].out.kind # "ok"
    /\ Executions(tr)[k + 1].out.kind = "ok"

\* C3: an operation that fails k times and then succeeds, the succeeding
\* execution being within the attempt budget, returns the result of the
\* succeeding execution after exactly k sleeps, the i-th sleep lasting
\* initial_delay * 2^(i-1), each sleep placed between a failed execution and
\* the next execution.
C3_RetryReturnsAfterBackoff ==
    RetryDone =>
      \A k \in 0..(InitialAttempts - 1) :
        FailsThenSucceeds(trace, k) =>
          /\ result = Returned(Executions(trace)[k + 1].out)
          /\ Len(Sleeps(trace)) = k
          /\ \A i \in 1..k : Sleeps(trace)[i].t = InitialTimeout * Pow2(i - 1)
          /\ Len(trace) = 2 * k + 1
          /\ \A i \in 1..k : Failed(trace[2 * i - 1]) /\ trace[2 * i].op = "sleep"
          /\ trace[2 * k + 1].op = "execute"

\* With timeout 2 and attempts 3, two failures then a success: two sleeps, 2 and 4.
C3_Witness ==
    /\ RetryDone
    /\ InitialTimeout = 2 /\ InitialAttempts = 3
    /\ FailsThenSucceeds(trace, 2)
    /\ result.kind = "value"
    /\ Sleeps(trace) = <<SleepEntry(2), SleepEntry(4)>>

\* C4: with an attempt budget of N the operation is executed at most N
\* times in total and the number of sleeps is at most N-1.
C4_AtMostBudgetExecutions ==
    InitialAttempts >= 1 =>
      /\ NumExec(trace) <= InitialAttempts
      /\ Len(Sleeps(trace)) <= InitialAttempts - 1

\* C5: if every execution fails, the call ends after a bounded number of
\* executions by raising one WorkflowError that wraps the exception of the
\* last execution; it never returns a value, and the error of the innermost
\* activation passes through the outer activations without a further sleep
\* or execution.
C5_ExhaustionWrapsLastCause ==
    /\ NumExec(trace) <= InitialAttempts + 1
    /\ (RetryDone /\ AllFailed(trace)) => rpc = "raise"
    /\ rpc = "raise" =>
         /\ AllFailed(trace)
         /\ Failed(trace[Len(trace)])
         /\ result = WorkflowError(LastExecution(trace).out)

\* Every execution failed, the first and the last with different exceptions.
C5_Witness ==
    /\ RetryDone /\ rpc = "raise"
    /\ NumExec(trace) >= 2
    /\ Executions(trace)[1].out # LastExecution(trace).out
    /\ result.kind = "WorkflowError"

\* C6: a failure that is not retryable propagates out of the wrapper
\* immediately: the operation is executed exactly once, no sleep happens, and
\* the caller gets that failure itself.
C6_NonRetryablePropagates ==
    (Len(trace) >= 1 /\ NonRetryable(trace[1].out)) =>
      /\ Len(trace) = 1
      /\ result = Raised(trace[1].out)

\* ------------------------------------------------------ _job_was_successful
LastEventVerdict(success, event) ==
    ~event.failed /\ ~(event.unexpectedExitStatus /\ event.exitStatus # 0)
\* The body of `for event in status["metadata"]["events"]`: the value of
\* `success` after the event, given its value before.
EventVerdict(success, event) ==
    IF event.failed
      THEN FALSE
      ELSE IF event.unexpectedExitStatus
        THEN (IF event.exitStatus # 0 THEN FALSE ELSE success)
        ELSE success

\* The loop over the events from the i-th on, in order.
RECURSIVE VerdictFrom(_, _, _)
VerdictFrom(events, i, success) ==
    IF i > Len(events)
      THEN success
      ELSE VerdictFrom(events, i + 1, EventVerdict(success, events[i]))

\* success = True; the loop; return success.
JobWasSuccessful(st) == VerdictFrom(st.events, 1, TRUE)

\* The events a payload may hold.
AllEvents ==
    { Event(f, FALSE, 0) : f \in BOOLEAN }
      \cup { Event(f, TRUE, x) : f \in BOOLEAN, x \in 0..MaxExitStatus }

RECURSIVE SeqsUpTo(_, _)
SeqsUpTo(S, n) ==
    IF n = 0 THEN { <<>> }
    ELSE LET shorter == SeqsUpTo(S, n - 1)
         IN shorter \cup { Append(q, x) : q \in { r \in shorter : Len(r) = n - 1 }, x \in S }

\* ----------------------------------------------------------- SpecClassify
InitClassify ==
    /\ cstatus \in { Payload(TRUE, evs) : evs \in SeqsUpTo(AllEvents, MaxEvents) }
    /\ verdict = "none"
    /\ RetryIdle /\ JobsIdle /\ StoreIdle /\ PlanIdle /\ RunIdle /\ AuxIdle

\* The call self._job_was_successful(status).
Classify ==
    /\ verdict = "none"
    /\ verdict' = IF JobWasSuccessful(cstatus) THEN "success" ELSE "failure"
    /\ UNCHANGED <<cstatus, retryVars, jobVars, storeVars, planVars, runVars, auxVars>>

NextClassify == Classify

SpecClassify == InitClassify /\ [][NextClassify]_vars

\* An event that reports a failure: a 'failed' entry, or an
\* 'unexpectedExitStatus' whose exitStatus is not zero.
Failing(e) == e.failed \/ (e.unexpectedExitStatus /\ e.exitStatus # 0)

\* C2: the classification of a completed status is success if and only if
\* no event of the sequence carries a 'failed' entry and no event carries an
\* 'unexpectedExitStatus' with a non-zero exitStatus.
C2_SuccessIffNoFailingEvent ==
    verdict # "none" =>
      (verdict = "success" <=>
         \A i \in 1..Len(cstatus.events) : ~Failing(cstatus.events[i]))

\* A failing event followed by a non-failing one: the verdict stays failure.
C2_Witness ==
    /\ verdict = "failure"
    /\ Len(cstatus.events) >= 2
    /\ Failing(cstatus.events[1])
    /\ cstatus.events[Len(cstatus.events)] = ExitEvent(0)

\* -------------------------------------------------------- check_active_jobs
\* An entry of `reports`: report_job_success(j) ("success"),
\* report_job_error(j) or j.error_callback(j.job) ("error"), yield j ("active").
\* msg is the message handed to the hook, if one is.
Msg(source, event) == <<[source |-> source, event |-> event]>>
NoMsg == <<>>
\* msg=str(ex) and msg=ex["content"].decode("utf-8"): a text taken from the
\* exception.
ExceptionMsg == Msg("exception", Event(FALSE, FALSE, 0))
ReportMsg(j, k, m) == [job |-> j, kind |-> k, msg |-> m]
Report(j, k) == ReportMsg(j, k, NoMsg)

\* SubmittedJobInfo(job=job, external_jobid=jobid, aux={"external_jobname":
\* result["name"]}) of lines 258-262: the job info run_job reports.
SubmittedJobInfo(j, id, name) ==
    [job |-> j, external_jobid |-> id, aux |-> [external_jobname |-> name]]
\* The attributes check_active_jobs reads besides j.job (lines 287, 288,
\* 295), and a job info that carries them on top of what run_job passes.
PolledAttributes == {"jobname", "jobid", "error_callback"}
PolledJobInfo(j, id, name) ==
    [job |-> j, external_jobid |-> id, aux |-> [external_jobname |-> name],
     jobname |-> name, jobid |-> id, error_callback |-> TRUE]
\* Entry j of an active_jobs list stands for the job info submitted[j]; its
\* attributes are the ones that job info has.
InfoAttributes(j) == DOMAIN submitted[j]
\* Lines 287-288 read j.jobname and j.jobid.
Readable(j) == {"jobname", "jobid"} \subseteq InfoAttributes(j)

\* `for j in active_jobs:` takes the next job; `async with
\* self.status_rate_limiter` takes a permit; the request is built and
\* self._retry_request(request) is called with its default arguments.  A
\* job info without jobname or jobid raises AttributeError on line 287 or
\* 288, inside the block, and the exception leaves the generator.
PollNext ==
    /\ pc = "loop"
    /\ idx < Len(active_jobs)
    /\ idx' = idx + 1
    /\ permits' = permits + 1
    /\ IF Readable(active_jobs[idx + 1])
         THEN /\ RetryStart(Request("operations.get", active_jobs[idx + 1]),
                            DefaultTimeout, DefaultAttempts)
              /\ pc' = "query"
         ELSE /\ UNCHANGED retryVars
              /\ pc' = "raised"
    /\ judged' = <<>>
    /\ UNCHANGED <<active_jobs, status, reports, terminal, cancelled>>

\* `status = self._retry_request(request)` assigns only when the call returns.
StatusAfter(res, st) == IF res.kind = "value" THEN <<res.out.body>> ELSE st

\* The reports made in the except clauses: 404 -> j.error_callback(j.job),
\* WorkflowError -> self.report_job_error(j, msg=str(ex)).  The 500 clause
\* makes none: `ex["content"]` on line 300 raises TypeError (an HttpError is
\* not subscriptable) before report_job_error on line 301 is reached.
ExceptReports(res, j) ==
    IF res.kind = "HttpError" /\ res.out.status = 404
      THEN <<Report(j, "error")>>
      ELSE IF res.kind = "WorkflowError"
        THEN <<ReportMsg(j, "error", ExceptionMsg)>>
        ELSE <<>>

\* The except clauses that end with `continue`: HttpError 404 and
\* WorkflowError.  An HttpError of another status than 404 and 500 matches
\* neither branch of the clause and falls through to the judgement.
Continues(res) ==
    \/ res.kind = "HttpError" /\ res.out.status = 404
    \/ res.kind = "WorkflowError"

\* What leaves check_active_jobs from the try statement: an exception
\* neither except clause names, and the TypeError the 500 clause raises.
Escapes(res) ==
    \/ res.kind \notin {"value", "HttpError", "WorkflowError"}
    \/ res.kind = "HttpError" /\ res.out.status = 500

\* if status.get("done", False) == True: success or error by
\* _job_was_successful(status); else: yield j.
Judge(st, j) ==
    IF st.done
      THEN IF JobWasSuccessful(st)
             THEN <<Report(j, "success")>>
             ELSE <<Report(j, "error")>>
      ELSE <<Report(j, "active")>>

\* The end of the try statement (lines 290-305): `status` is assigned when
\* the call returned, otherwise the except clauses run; then the
\* `async with` block is left.  `status` is a local of the whole function.
PollHandle ==
    /\ pc = "query"
    /\ RetryDone
    /\ LET j == active_jobs[idx]
       IN /\ status' = StatusAfter(result, status)
          /\ reports' = IF Escapes(result)
                          THEN reports
                          ELSE reports \o ExceptReports(result, j)
          /\ pc' = IF Escapes(result)
                     THEN "raised"
                     ELSE IF Continues(result) THEN "loop" ELSE "judge"
    /\ UNCHANGED <<active_jobs, idx, judged, permits, terminal, cancelled, retryVars>>

\* Lines 307-316, after the rate limiter was released: the judgement of
\* `status`.  When it is reached without an assignment in this iteration
\* `status` holds the previous job's payload, and is unbound in the first
\* iteration (UnboundLocalError leaves the generator).
PollJudge ==
    /\ pc = "judge"
    /\ IF status = <<>>
         THEN /\ pc' = "raised"
              /\ reports' = reports
              /\ judged' = <<>>
         ELSE /\ pc' = "loop"
              /\ reports' = reports \o Judge(status[1], active_jobs[idx])
              /\ judged' = status
    /\ UNCHANGED <<active_jobs, idx, status, permits, terminal, cancelled, retryVars>>

\* The list is exhausted: the generator ends.
PollFinish ==
    /\ pc = "loop"
    /\ idx = Len(active_jobs)
    /\ pc' = "done"
    /\ UNCHANGED <<active_jobs, idx, status, reports, judged, permits, terminal,
                   cancelled, retryVars>>

\* The lists of jobs handed to check_active_jobs and cancel_jobs.
JobLists == { [i \in 1..n |-> i] : n \in 1..MaxJobs }

\* --------------------------------------------------------------- SpecPoll
\* The job infos a list of n jobs stands for: each is a job info as run_job
\* builds it, or one that also carries the attributes the loop reads.
JobInfoLists(n) ==
    { [i \in 1..n |-> IF i \in R THEN PolledJobInfo(i, i, i)
                                  ELSE SubmittedJobInfo(i, i, i)] :
        R \in SUBSET (1..n) }

InitPoll ==
    /\ active_jobs \in JobLists
    /\ submitted \in JobInfoLists(Len(active_jobs))
    /\ idx = 0 /\ pc = "loop" /\ status = <<>> /\ reports = <<>>
    /\ judged = <<>> /\ permits = 0 /\ terminal = {} /\ cancelled = <<>>
    /\ locations = <<>> /\ user_location = None /\ location = Unset
    /\ direct_requests = <<>> /\ needs_singularity = FALSE
    /\ use_singularity = FALSE /\ phase = "idle"
    /\ run_error = "none" /\ planned = <<>>
    /\ RetryIdle /\ ClassifyIdle /\ StoreIdle /\ PlanIdle /\ AuxIdle

NextPoll ==
    \/ PollNext /\ UNCHANGED <<classifyVars, storeVars, planVars, runVars, auxVars>>
    \/ RetryExecute /\ UNCHANGED <<jobVars, classifyVars, storeVars, planVars, runVars, auxVars>>
    \/ RetrySleep /\ UNCHANGED <<jobVars, classifyVars, storeVars, planVars, runVars, auxVars>>
    \/ RetryUnwind /\ UNCHANGED <<jobVars, classifyVars, storeVars, planVars, runVars, auxVars>>
    \/ PollHandle /\ UNCHANGED <<classifyVars, storeVars, planVars, runVars, auxVars>>
    \/ PollJudge /\ UNCHANGED <<classifyVars, storeVars, planVars, runVars, auxVars>>
    \/ PollFinish /\ UNCHANGED <<classifyVars, storeVars, planVars, runVars, auxVars>>

SpecPoll == InitPoll /\ [][NextPoll]_vars

\* Claims about check_active_jobs (checked under SpecPoll).
ReportsOf(j) == SelectSeq(reports, LAMBDA r : r.job = j)
\* The i-th job of the list has been through its iteration.
Handled(i) == i < idx \/ (i = idx /\ pc \in {"loop", "done"})
\* The payload the job's own status query returned, if it returned one.
OwnStatus(tr) ==
    IF tr # <<>> /\ tr[Len(tr)].op = "execute" /\ tr[Len(tr)].out.kind = "ok"
      THEN <<tr[Len(tr)].out.body>>
      ELSE <<>>

\* C1: in a call of check_active_jobs every job of the list gets exactly one
\* of: reported successful, reported as an error, yielded as still active.
\* A job whose own status says done is never yielded, a job whose own status
\* is not done is never reported successful, no job is reported twice, no
\* job is judged on another job's payload, and no job's error ends the loop
\* before the remaining jobs are polled.
C1_PollReportsEachJobOnce ==
    /\ pc # "raised"
    /\ \A i \in 1..Len(active_jobs) :
         Len(ReportsOf(active_jobs[i])) = IF Handled(i) THEN 1 ELSE 0
    /\ pc = "done" => Len(reports) = Len(active_jobs)
    /\ (idx >= 1 /\ Handled(idx)) =>
         LET own == OwnStatus(trace)
             r == ReportsOf(active_jobs[idx])[1]
         IN /\ NumExec(trace) >= 1
            /\ request = Request("operations.get", active_jobs[idx])
            /\ own = <<>> => (r.kind = "error" /\ judged = <<>>)
            /\ own # <<>> =>
                 /\ judged = own
                 /\ own[1].done => r.kind # "active"
                 /\ ~own[1].done => r.kind = "active"
                 /\ r.kind = "success" <=> (own[1].done /\ JobWasSuccessful(own[1]))

\* C7: a 404 response to a job's status query makes the job be reported as
\* an error without the query being retried: the get request is executed
\* exactly once in that poll and the job is not yielded as still active.
C7_NotFoundIsNotRetried ==
    (pc \in {"query", "loop", "done"} /\ trace # <<>>
       /\ trace[1].out = HttpError(404)) =>
      /\ Len(trace) = 1
      /\ Handled(idx) => ReportsOf(active_jobs[idx]) = <<Report(active_jobs[idx], "error")>>

\* ------------------------------------------------------------- cancel_jobs
\* `for job in active_jobs:` takes the next job, builds
\* operations.cancel(name=job.aux["external_jobname"]) and calls
\* self._retry_request(request) with its default arguments.
CancelNext ==
    /\ pc = "cancelling"
    /\ idx < Len(active_jobs)
    /\ idx' = idx + 1
    /\ RetryStart(Request("operations.cancel", active_jobs[idx + 1]),
                  DefaultTimeout, DefaultAttempts)
    /\ cancelled' = Append(cancelled, active_jobs[idx + 1])
    /\ pc' = "cancel"
    /\ UNCHANGED <<active_jobs, status, reports, judged, permits, terminal>>

SwallowsOnlyHttpError(res) == res.kind = "HttpError"
\* `except (Exception, BaseException, googleapiclient.errors.HttpError):
\* continue` names every exception.
Swallows(res) == TRUE

\* The end of the try statement: the call returned, or what it raised is
\* swallowed and the loop continues; otherwise it leaves cancel_jobs.  The
\* outcome of the job's cancel call is noted in `reports` ("cancelled" when
\* the call returned, "failed" when it raised).
CancelHandle ==
    /\ pc = "cancel"
    /\ RetryDone
    /\ pc' = IF result.kind = "value" \/ Swallows(result) THEN "cancelling" ELSE "raised"
    /\ reports' = Append(reports, Report(active_jobs[idx],
                            IF result.kind = "value" THEN "cancelled" ELSE "failed"))
    /\ UNCHANGED <<active_jobs, idx, status, judged, permits, terminal,
                   cancelled, retryVars>>

\* The list is exhausted: cancel_jobs returns.
CancelFinish ==
    /\ pc = "cancelling"
    /\ idx = Len(active_jobs)
    /\ pc' = "done"
    /\ UNCHANGED <<active_jobs, idx, status, reports, judged, permits, terminal,
                   cancelled, retryVars>>

\* ------------------------------------------------------------- SpecCancel
InitCancel ==
    /\ active_jobs \in JobLists
    /\ terminal \in SUBSET { active_jobs[i] : i \in 1..Len(active_jobs) }
    /\ idx = 0 /\ pc = "cancelling" /\ status = <<>> /\ reports = <<>>
    /\ judged = <<>> /\ permits = 0 /\ cancelled = <<>>
    /\ RetryIdle /\ ClassifyIdle /\ StoreIdle /\ PlanIdle /\ RunIdle /\ AuxIdle

NextCancel ==
    \/ CancelNext /\ UNCHANGED <<classifyVars, storeVars, planVars, runVars, auxVars>>
    \/ RetryExecute /\ UNCHANGED <<jobVars, classifyVars, storeVars, planVars, runVars, auxVars>>
    \/ RetrySleep /\ UNCHANGED <<jobVars, classifyVars, storeVars, planVars, runVars, auxVars>>
    \/ RetryUnwind /\ UNCHANGED <<jobVars, classifyVars, storeVars, planVars, runVars, auxVars>>
    \/ CancelHandle /\ UNCHANGED <<classifyVars, storeVars, planVars, runVars, auxVars>>
    \/ CancelFinish /\ UNCHANGED <<classifyVars, storeVars, planVars, runVars, auxVars>>

SpecCancel == InitCancel /\ [][NextCancel]_vars

\* C8: cancel_jobs issues a cancel request for every job of active_jobs, in
\* list order; a failed cancel request (the wrapper's exhaustion error
\* included) is swallowed and the next job still gets its request, so
\* cancel_jobs never raises, also for a job whose operation is terminal.
C8_CancelReachesEveryJob ==
    /\ pc # "raised"
    /\ cancelled = SubSeq(active_jobs, 1, idx)
    /\ pc = "done" => cancelled = active_jobs
    /\ (idx >= 1 /\ (pc \in {"cancelling", "done"} \/ RetryDone)) =>
         /\ NumExec(trace) >= 1
         /\ request = Request("operations.cancel", active_jobs[idx])

\* The cancel of the first job, whose operation is terminal, ended in the
\* exhaustion error after a 400; the second job was cancelled all the same.
C8_Witness ==
    /\ pc = "done"
    /\ Len(active_jobs) = 2
    /\ 1 \in terminal
    /\ cancelled = <<1, 2>>
    /\ reports = <<Report(1, "failed"), Report(2, "cancelled")>>

\* ---------------------------------------------------- source package cache
\* A file path or blob name: a directory part and a base name.
Join(d, b) == [dir |-> d, base |-> b]
\* os.path.basename
Basename(p) == p.base
\* self.workflow.persistence.aux_path, a directory of the local file system.
AuxPath == "aux_path"

\* The bytes of the .tar.gz: the gzip header (which holds the name of the
\* temporary archive file) and the archived working-tree content.
Archive(tmpname, content) == [fname |-> tmpname, content |-> content]
\* hashlib.sha256 of the archive bytes, taken as free of collisions.
Sha256(bytes) == <<"sha256", bytes>>
\* f"workdir-{sha256}.tar.gz"
WorkdirName(sha) == <<"workdir", sha>>
\* os.path.join(self.workflow.persistence.aux_path, f"workdir-{sha256}.tar.gz")
HashTar(sha) == Join(AuxPath, WorkdirName(sha))
\* "source/cache/%s" % os.path.basename(targz)
PipelinePackage(path) == Join("source/cache", Basename(path))

\* self.bucket.blob(package): the blob whose name is the string `package`.
ShutdownBlobName(package) == package

CleanupWhenSaving == ~save_storage_cache
\* `if self._save_storage_cache:` skips the cleanup.
SkipsCleanup == save_storage_cache

\* A path is the sequence of its characters.
PathChars == {"/", "a", "b"}
\* os.path.sep
Sep == "/"
\* self.workdir
WorkDir == <<"/", "a">>
\* Python's `s in t` on strings: s occurs in t as a contiguous part.
IsSubstring(s, t) ==
    \E i \in 0..(Len(t) - Len(s)) : SubSeq(t, i + 1, i + Len(s)) = s
\* str.startswith, on sequences
StartsWith(t, s) == Len(s) <= Len(t) /\ SubSeq(t, 1, Len(s)) = s
\* An entry of self.workflow_sources: the file name kept in the list and the
\* path os.path.realpath resolves it to (they differ for a symbolic link).
SourceFile(name, real) == [name |-> name, real |-> real]
\* os.path.realpath(filename)
Realpath(f) == f.real
\* `self.workdir not in os.path.realpath(filename)`
FoundOutside(f) == ~IsSubstring(WorkDir, Realpath(f))
\* The first entry the loop over self.workflow_sources raises for.
FirstOutside(srcs) ==
    srcs[CHOOSE i \in 1..Len(srcs) :
           /\ FoundOutside(srcs[i])
           /\ \A j \in 1..(i - 1) : ~FoundOutside(srcs[j])]
\* A source file of the working directory.
InWorkdir == SourceFile(WorkDir \o <<Sep, "a">>, WorkDir \o <<Sep, "a">>)

\* _generate_build_source_package: fail for the first source file found
\* outside the working directory; otherwise archive the sources under a
\* temporary name, hash the archive, keep it in aux_path under the hash's
\* name unless a file of that name is there, track the path and return it.
GeneratePackage ==
    /\ spc = "ready"
    /\ packagings < MaxPackagings
    /\ IF \E i \in 1..Len(workflow_sources) : FoundOutside(workflow_sources[i])
         THEN /\ package_error' = <<FirstOutside(workflow_sources).name>>
              /\ spc' = "failed"
              /\ UNCHANGED <<aux_files, build_packages, targz, packagings>>
         ELSE /\ \E tmpname \in 1..NumTmpNames, content \in 1..NumContents :
                   LET hash_tar == HashTar(Sha256(Archive(tmpname, content)))
                   IN /\ aux_files' = aux_files \cup {hash_tar}
                      /\ build_packages' = build_packages \cup {hash_tar}
                      /\ targz' = <<hash_tar>>
              /\ spc' = "upload"
              /\ packagings' = packagings + 1
              /\ UNCHANGED package_error
    /\ UNCHANGED <<store, uploaded, save_storage_cache, pipeline_package,
                   workflow_sources>>

\* _upload_build_source_package(targz): upload under source/cache/<base name>
\* only if no blob of that name exists.
UploadPackage ==
    /\ spc = "upload"
    /\ LET name == PipelinePackage(targz[1])
       IN /\ pipeline_package' = <<name>>
          /\ IF name \notin store
               THEN store' = store \cup {name} /\ uploaded' = uploaded \cup {name}
               ELSE UNCHANGED <<store, uploaded>>
    /\ spc' = "ready"
    /\ UNCHANGED <<build_packages, aux_files, save_storage_cache, targz, packagings,
                   workflow_sources, package_error>>

\* shutdown: unless the cache is kept, for each tracked package delete the
\* blob of that name if it exists.
Shutdown ==
    /\ spc = "ready"
    /\ packagings >= 1
    /\ store' = IF SkipsCleanup
                  THEN store
                  ELSE store \ { ShutdownBlobName(package) : package \in build_packages }
    /\ spc' = "shutdown"
    /\ UNCHANGED <<build_packages, aux_files, uploaded, save_storage_cache,
                   pipeline_package, targz, packagings, workflow_sources,
                   package_error>>

\* The blob names a bucket may hold before the run.
AllShas == { Sha256(Archive(t, c)) : t \in 1..NumTmpNames, c \in 1..NumContents }
BlobUniverse == { Join(d, WorkdirName(sha)) : d \in {AuxPath, "source/cache"}, sha \in AllShas }

\* -------------------------------------------------------------- SpecStore
InitStore ==
    /\ store \in { S \in SUBSET BlobUniverse : Cardinality(S) <= MaxPreExisting }
    /\ save_storage_cache \in BOOLEAN
    /\ build_packages = {} /\ aux_files = {} /\ uploaded = {}
    /\ pipeline_package = <<>> /\ targz = <<>> /\ spc = "ready" /\ packagings = 0
    /\ workflow_sources = <<InWorkdir>> /\ package_error = <<>>
    /\ RetryIdle /\ JobsIdle /\ ClassifyIdle /\ PlanIdle /\ RunIdle /\ AuxIdle

NextStore ==
    \/ GeneratePackage /\ UNCHANGED <<retryVars, jobVars, classifyVars, planVars, runVars, auxVars>>
    \/ UploadPackage /\ UNCHANGED <<retryVars, jobVars, classifyVars, planVars, runVars, auxVars>>
    \/ Shutdown /\ UNCHANGED <<retryVars, jobVars, classifyVars, planVars, runVars, auxVars>>

SpecStore == InitStore /\ [][NextStore]_vars

\* C9: after shutdown() without retention, no source package this run
\* uploaded remains in the store: every blob written by the upload has been
\* deleted.
C9_ShutdownDeletesUploadedPackages ==
    (spc = "shutdown" /\ ~save_storage_cache) =>
      uploaded \cap store = {}

\* C10: with retention configured, shutdown() leaves the object store
\* unchanged: no blob is deleted and none is written.
C10_RetentionLeavesStoreUnchanged ==
    [][(spc = "ready" /\ spc' = "shutdown" /\ save_storage_cache) => store' = store]_vars

\* Shutdown with retention, after an upload, with a blob in the store that
\* bears the name of a tracked package.
C10_Witness ==
    /\ spc = "shutdown"
    /\ save_storage_cache
    /\ uploaded # {}
    /\ uploaded \subseteq store
    /\ build_packages \cap store # {}

\* The archived working-tree content a package name or blob name stands for.
ContentOf(name) == Basename(name)[2][2].content

\* C11: packaging the same source content twice gives the same package
\* name, so one content is tracked under one name and uploaded once: no two
\* different tracked packages and no two different uploaded blobs hold the
\* same content.
C11_SameContentOnePackage ==
    /\ \A p, q \in build_packages : ContentOf(p) = ContentOf(q) => p = q
    /\ \A a, b \in uploaded : ContentOf(a) = ContentOf(b) => a = b

\* ------------------------------------------------------------ SpecSources
\* The packaging of Executor.__init__ for every list of one or two source
\* files: files named by their real path, and symbolic links of the working
\* directory that resolve anywhere.
MaxPathLen == 4

WellFormedPath(p) ==
    /\ Len(p) >= 2 /\ p[1] = Sep /\ p[Len(p)] # Sep
    /\ \A i \in 1..(Len(p) - 1) : ~(p[i] = Sep /\ p[i + 1] = Sep)
    /\ p # WorkDir
Paths == { p \in SeqsUpTo(PathChars, MaxPathLen) : WellFormedPath(p) }
SourceFiles ==
    { SourceFile(p, p) : p \in Paths }
      \cup { SourceFile(InWorkdir.name, p) : p \in Paths }
SourceLists ==
    { <<f>> : f \in SourceFiles } \cup { <<f, g>> : f \in SourceFiles, g \in SourceFiles }

InitSources ==
    /\ workflow_sources \in SourceLists
    /\ store = {} /\ save_storage_cache = FALSE
    /\ build_packages = {} /\ aux_files = {} /\ uploaded = {}
    /\ pipeline_package = <<>> /\ targz = <<>> /\ spc = "ready" /\ packagings = 0
    /\ package_error = <<>>
    /\ RetryIdle /\ JobsIdle /\ ClassifyIdle /\ PlanIdle /\ RunIdle /\ AuxIdle

\* Executor.__init__: one packaging, then its upload.
NextSources ==
    \/ packagings = 0 /\ GeneratePackage /\ UNCHANGED <<retryVars, jobVars, classifyVars, planVars, runVars, auxVars>>
    \/ UploadPackage /\ UNCHANGED <<retryVars, jobVars, classifyVars, planVars, runVars, auxVars>>

SpecSources == InitSources /\ [][NextSources]_vars

\* A path under the working directory: below it in the directory tree.
UnderWorkdir(p) == StartsWith(p, WorkDir \o <<Sep>>)
ResolvesOutside(f) == ~UnderWorkdir(Realpath(f))

\* C12: when a source file resolves to a path that is not under the working
\* directory, nothing is ever tracked or uploaded and packaging ends only in
\* the error, which names such a file.
C12_OutsideSourceFailsPackaging ==
    (\E i \in 1..Len(workflow_sources) : ResolvesOutside(workflow_sources[i])) =>
      /\ build_packages = {} /\ uploaded = {} /\ store = {}
      /\ spc \in {"ready", "failed"}
      /\ spc = "failed" =>
           \E i \in 1..Len(workflow_sources) :
             /\ ResolvesOutside(workflow_sources[i])
             /\ package_error = <<workflow_sources[i].name>>

\* ------------------------------------------------------- machine catalog
\* Names of machine types, accelerator types, regions and zones are the
\* sequences of their characters.
MachineType(name, guestCpus, memoryMb, zone) ==
    [name |-> name, guestCpus |-> guestCpus, memoryMb |-> memoryMb, zone |-> zone]
AcceleratorType(name, maximumCardsPerInstance) ==
    [name |-> name, maximumCardsPerInstance |-> maximumCardsPerInstance]
\* A zone of the provider (zones().list) and the items machineTypes().list
\* returns for it.
Zone(name, items) == [name |-> name, items |-> items]
\* The names in a list of machine types or accelerator types.
NamesOf(items) == { items[i].name : i \in 1..Len(items) }

\* str.endswith, on sequences
EndsWith(t, s) == Len(s) <= Len(t) /\ SubSeq(t, Len(t) - Len(s) + 1, Len(t)) = s

\* re.search("^(%s)" % "|".join(self.regions), z["name"]): the zone's name
\* starts with one of the regions (the empty alternation matches any name).
InRegions(name) ==
    regions = <<>> \/ \E i \in 1..Len(regions) : StartsWith(name, regions[i])
\* zones = [z for z in zones["items"] if re.search(regexp, z["name"])]
MatchingZones == SelectSeq(zones, LAMBDA z : InRegions(z.name))

\* "micro" in name
IsMicro(name) == IsSubstring(<<"m", "i", "c", "r", "o">>, name)
\* re.search("^(e2|m1)", name)
IsDiscouraged(name) == StartsWith(name, <<"e", "2">>) \/ StartsWith(name, <<"m", "1">>)
\* The names of a zone other than the base zone that count as shared.
FilteredNames(z) == { n \in NamesOf(z.items) : ~IsMicro(n) /\ ~IsDiscouraged(n) }
NeverMissing(name, z) == FALSE
\* `if machine_type not in names: to_remove.add(machine_type)`
MissingFrom(name, z) == name \notin FilteredNames(z)
\* get_available_machine_types, for a non-empty list of matching zones: the
\* machine types of the last zone, without those some other zone misses.
AvailableMachineTypes(matching) ==
    LET base == matching[Len(matching)]
        others == SubSeq(matching, 1, Len(matching) - 1)
        to_remove == { n \in NamesOf(base.items) :
                         \E i \in 1..Len(others) : MissingFrom(n, others[i]) }
    IN SelectSeq(base.items, LAMBDA mt : mt.name \notin to_remove)
\* The call in the current state: without a matching zone the loop variable
\* `zone` is read unbound.
GetAvailableMachineTypes ==
    IF MatchingZones = <<>>
      THEN [kind |-> "error", items |-> <<>>]
      ELSE [kind |-> "value", items |-> AvailableMachineTypes(MatchingZones)]

\* ------------------------------------------------------ resource planning
\* Python's truth value of an optional number and of an optional string.
TruthyNum(o) == o # None /\ o[1] # 0
TruthyStr(o) == o # None /\ o[1] # <<>>

DefaultCores == 1
InitialMaxCpu == 1
InitialMaxMem == 15360
ImageDiskGb == 10
MbPerGb == 1024

\* job.resources.get("_cores", 1)
Cores(j) == IF j._cores = None THEN DefaultCores ELSE j._cores[1]
\* math.ceil(disk_mb / 1024)
DiskGb(disk_mb) == (disk_mb + MbPerGb - 1) \div MbPerGb
\* gpu_count = nvidia_gpu or gpu; a model without a count means one.
GpuCount(j) ==
    LET gpu_count == IF TruthyNum(j.nvidia_gpu) THEN j.nvidia_gpu ELSE j.gpu
    IN IF TruthyStr(j.gpu_model) /\ ~TruthyNum(gpu_count) THEN Some(1) ELSE gpu_count

\* _add_gpu: the value left in self._machine_type_prefix.
AddGpuPrefix(value) ==
    LET old == IF TruthyStr(value) THEN value ELSE Some(<<>>)
    IN IF StartsWith(old[1], <<"n", "1">>) THEN old ELSE Some(<<"n", "1">>)

SetMax(S) == CHOOSE x \in S : \A y \in S : y <= x
\* The running maxima kept for the error message.
MaxCpu(machine_types) ==
    SetMax({InitialMaxCpu} \cup { machine_types[i].guestCpus : i \in 1..Len(machine_types) })
MaxMem(machine_types) ==
    SetMax({InitialMaxMem} \cup { machine_types[i].memoryMb : i \in 1..Len(machine_types) })

FitsCpuOnly(mt, cores, mem_mb) == ~(mt.guestCpus < cores)
\* First pass: `if guestCpus < cores or memoryMb < mem_mb: continue`
Fits(mt, cores, mem_mb) == ~(mt.guestCpus < cores \/ mt.memoryMb < mem_mb)
Keepers(machine_types, cores, mem_mb) ==
    SelectSeq(machine_types, LAMBDA mt : Fits(mt, cores, mem_mb))
\* `if self.machine_type_prefix:` keep the names that start with it.
PrefixKeepers(keepers, prefix) ==
    IF TruthyStr(prefix)
      THEN SelectSeq(keepers, LAMBDA mt : StartsWith(mt.name, prefix[1]))
      ELSE keepers

AlwaysResourcesVariant(prefix) == "resources exceed maximum"
\* The message of the error raised when no machine type is left.
NoMachineTypeVariant(prefix) ==
    IF TruthyStr(prefix) THEN "prefix too strict" ELSE "resources exceed maximum"

\* The selection loop: the first machine type, replaced by each later one
\* that has both fewer cpus and less memory than the current choice.
SmallerInOne(mt, best) ==
    mt.guestCpus < best.guestCpus \/ mt.memoryMb < best.memoryMb
\* `if guestCpus < min_cores and memoryMb < min_mem:` the current choice is
\* replaced.
Replaces(mt, best) ==
    mt.guestCpus < best.guestCpus /\ mt.memoryMb < best.memoryMb
RECURSIVE Smallest(_, _, _)
Smallest(machine_types, i, best) ==
    IF i > Len(machine_types)
      THEN best
      ELSE Smallest(machine_types, i + 1,
                    IF Replaces(machine_types[i], best)
                      THEN machine_types[i]
                      ELSE best)
SelectLast(machine_types) == machine_types[Len(machine_types)]
SelectSmallest(machine_types) == Smallest(machine_types, 1, machine_types[1])

\* self.preemptible_rules.is_preemptible(name): the policy is the set of the
\* names of the preemptible rules.
IsPreemptible(policy, name) == name \in policy
AnyRulePreemptible(policy, rules) ==
    \E i \in 1..Len(rules) : IsPreemptible(policy, rules[i])
FirstRulePreemptible(policy, rules) == IsPreemptible(policy, rules[1])
\* all(self.preemptible_rules.is_preemptible(rule.name) for rule in job.rules)
AllRulesPreemptible(policy, rules) ==
    \A i \in 1..Len(rules) : IsPreemptible(policy, rules[i])
\* The group check raises when not all but some rules are preemptible.
NotHomogeneous(policy, rules) ==
    ~AllRulesPreemptible(policy, rules) /\ AnyRulePreemptible(policy, rules)
\* The value of the local `preemptible`.
Preemptible(policy, j) ==
    IF j.is_group
      THEN AllRulesPreemptible(policy, j.rules)
      ELSE IsPreemptible(policy, j.rules[1])

\* _get_accelerator: an accelerator type is kept unless its name differs
\* from the requested model or ends in "vws", if it allows gpu_count cards.
Qualifies(a, gpu_count, gpu_model) ==
    /\ ~((TruthyStr(gpu_model) /\ a.name # gpu_model[1]) \/ EndsWith(a.name, <<"v", "w", "s">>))
    /\ a.maximumCardsPerInstance >= gpu_count
AcceleratorKeepers(items, gpu_count, gpu_model) ==
    SelectSeq(items, LAMBDA a : Qualifies(a, gpu_count, gpu_model))
NoAcceleratorVariant(gpu_model) ==
    IF TruthyStr(gpu_model) THEN "no accelerator of model" ELSE "no accelerator"
\* The first kept accelerator, replaced by each later one that allows fewer
\* cards.
RECURSIVE SmallestAccelerator(_, _, _)
SmallestAccelerator(keepers, i, best) ==
    IF i > Len(keepers)
      THEN best
      ELSE SmallestAccelerator(keepers, i + 1,
                               IF keepers[i].maximumCardsPerInstance < best.maximumCardsPerInstance
                                 THEN keepers[i]
                                 ELSE best)
FirstAccelerator(keepers) == keepers[1]
\* What _get_accelerator returns when keepers is not empty.
GetAccelerator(keepers) == SmallestAccelerator(keepers, 1, keepers[1])

\* virtual_machine: machineType, bootDiskSizeGb, preemptible and, for a gpu
\* job, the accelerators entry.
VirtualMachine(machineType, bootDiskSizeGb, preemptible, accels) ==
    [machineType |-> machineType, bootDiskSizeGb |-> bootDiskSizeGb,
     preemptible |-> preemptible, accelerators |-> accels]
AcceleratorEntry(type, count) == [type |-> type, count |-> count]

Raises(error, variant, selected, max_cpu, max_mem) ==
    PlanResult("error", error, variant, selected, None, None, max_cpu, max_mem)
\* What a call leaves behind: its result and the attributes it assigned.
Outcome(p, mtp, umtp, dr, fetched) ==
    [plan |-> p, machine_type_prefix |-> mtp, _machine_type_prefix |-> umtp,
     default_resources |-> dr, machine_types |-> fetched]

\* A prefix that stays when the next job names none.
StickyPrefix(j) ==
    IF j.machine_type # None
      THEN j.machine_type
      ELSE IF machine_type_prefix.has THEN machine_type_prefix.value ELSE None
\* self.machine_type_prefix = job.resources.get("machine_type")
PrefixFor(j) == j.machine_type

\* Lines 526-613 of _generate_job_resources(job): `keepers` is what the
\* filters left of the machine types `fetched`, `prefix` the value
\* self.machine_type_prefix holds when line 527 reads it.
PlanTail(j, fetched, keepers, prefix) ==
    LET gpu_count == GpuCount(j)
        wants_gpu == TruthyNum(gpu_count)
        max_cpu == MaxCpu(fetched.items)
        max_mem == MaxMem(fetched.items)
        selected == SelectSmallest(keepers)
        policy == preemptible_rules.value[1]
        acc_keepers == AcceleratorKeepers(accelerators, gpu_count[1], j.gpu_model)
        accelerator == GetAccelerator(acc_keepers)
        vm == VirtualMachine(selected.name, DiskGb(j.disk_mb[1]) + ImageDiskGb,
                             Preemptible(policy, j),
                             IF wants_gpu
                               THEN <<AcceleratorEntry(accelerator.name, gpu_count[1])>>
                               ELSE <<>>)
    IN IF keepers = <<>>
         THEN Raises("WorkflowError", NoMachineTypeVariant(prefix), None,
                     max_cpu, max_mem)
       ELSE IF ~preemptible_rules.has
         THEN Raises("AttributeError", "preemptible_rules", Some(selected),
                     max_cpu, max_mem)
       ELSE IF j.is_group /\ NotHomogeneous(policy, j.rules)
         THEN Raises("WorkflowError", "not homogenously preemptible",
                     Some(selected), max_cpu, max_mem)
       ELSE IF wants_gpu /\ acc_keepers = <<>>
         THEN Raises("WorkflowError", NoAcceleratorVariant(j.gpu_model),
                     Some(selected), max_cpu, max_mem)
       ELSE PlanResult("plan", "none", "none", Some(selected), Some(vm),
                       IF wants_gpu THEN Some(accelerator) ELSE None,
                       max_cpu, max_mem)

\* _generate_job_resources(job) in the current state of the executor, where
\* `prefix` is the value self.machine_type_prefix holds when the filter of
\* lines 518-531 reads it.
GenerateWithPrefix(j, prefix) ==
    LET cores == Cores(j)
        gpu_count == GpuCount(j)
        wants_gpu == TruthyNum(gpu_count)
        mtp == Attr(prefix)
        umtp == IF wants_gpu /\ _machine_type_prefix.has
                  THEN Attr(AddGpuPrefix(_machine_type_prefix.value))
                  ELSE _machine_type_prefix
        dr == IF wants_gpu THEN Some(gpu_count[1]) ELSE default_resources
        fetched == GetAvailableMachineTypes
        keepers == PrefixKeepers(Keepers(fetched.items, cores, j.mem_mb[1]), prefix)
    IN IF j.mem_mb = None
         THEN Outcome(Raises("WorkflowError", "no memory resource", None, 0, 0),
                      machine_type_prefix, _machine_type_prefix, default_resources,
                      available_machine_types)
       ELSE IF j.disk_mb = None
         THEN Outcome(Raises("WorkflowError", "no disk resource", None, 0, 0),
                      machine_type_prefix, _machine_type_prefix, default_resources,
                      available_machine_types)
       ELSE IF wants_gpu /\ ~_machine_type_prefix.has
         THEN Outcome(Raises("AttributeError", "_machine_type_prefix", None, 0, 0),
                      mtp, umtp, dr, available_machine_types)
       ELSE IF fetched.kind = "error"
         THEN Outcome(Raises("UnboundLocalError", "zone", None, 0, 0), mtp, umtp, dr,
                      fetched)
       ELSE Outcome(PlanTail(j, fetched, keepers, prefix), mtp, umtp, dr, fetched)

\* A call that runs without another call in between reads the prefix it
\* assigned at line 486.
GenerateJobResources(j) == GenerateWithPrefix(j, PrefixFor(j))

\* One call of _generate_job_resources for the job at hand.
Plan ==
    /\ plan = NoPlan
    /\ LET out == GenerateJobResources(job)
       IN /\ plan' = out.plan
          /\ machine_type_prefix' = out.machine_type_prefix
          /\ _machine_type_prefix' = out._machine_type_prefix
          /\ default_resources' = out.default_resources
          /\ available_machine_types' = out.machine_types
    /\ UNCHANGED <<job, regions, zones, accelerators, preemptible_rules>>

\* --------------------------------------------------------------- SpecPlan
\* Planning of one job without gpu request over every catalog of up to
\* MaxShapes machine types: one region, one matching zone that lists the
\* catalog.
MaxShapes == 2

N1S == <<"n", "1", "s">>
N1H == <<"n", "1", "h">>
N2S == <<"n", "2", "s">>
UsRegion == <<"u", "s">>
UsZoneA == <<"u", "s", "a">>
CpuValues == {2, 4}
MemValues == {4096, 8192, 16384}
Shapes(zone, names, cpus, mems) ==
    { MachineType(n, c, m, zone) : n \in names, c \in cpus, m \in mems }
\* The lists of up to n items of S with distinct names, as a list call
\* returns them.
RECURSIVE Listings(_, _)
Listings(S, n) ==
    IF n = 0
      THEN {<<>>}
      ELSE LET shorter == Listings(S, n - 1)
           IN shorter \cup
                UNION { LET used == NamesOf(c)
                        IN { Append(c, x) : x \in { y \in S : y.name \notin used } } :
                          c \in { d \in shorter : Len(d) = n - 1 } }
Prefixes == {None, Some(<<>>), Some(<<"n", "1">>), Some(<<"n", "2">>)}
PlanJobs ==
    { Job(c, m, d, None, None, None, p, FALSE, <<"a">>) :
        c \in {None, Some(2), Some(3), Some(4), Some(8)},
        m \in {None, Some(4096), Some(8192)},
        d \in {None, Some(1500)}, p \in Prefixes }

InitPlan ==
    /\ job \in PlanJobs
    /\ regions = <<UsRegion>>
    /\ zones \in { <<Zone(UsZoneA, c)>> :
                     c \in Listings(Shapes(UsZoneA, {N1S, N1H, N2S}, CpuValues, MemValues),
                                MaxShapes) }
    /\ accelerators = <<>>
    /\ preemptible_rules \in {Unset, Attr(Some({"a"}))}
    /\ machine_type_prefix = Unset /\ _machine_type_prefix = Unset
    /\ default_resources = None /\ plan = NoPlan
    /\ available_machine_types = NotFetched
    /\ RetryIdle /\ JobsIdle /\ ClassifyIdle /\ StoreIdle /\ RunIdle /\ AuxIdle

NextPlan == Plan /\ UNCHANGED <<retryVars, jobVars, classifyVars, storeVars, runVars, auxVars>>

SpecPlan == InitPlan /\ [][NextPlan]_vars

\* The catalog get_available_machine_types returned to the planning.
FetchedCatalog == available_machine_types.items
InCatalog(mt) == \E i \in 1..Len(FetchedCatalog) : FetchedCatalog[i] = mt
\* The request names both resources planning requires.
HasResources == job.mem_mb # None /\ job.disk_mb # None
\* Some machine type of the catalog has the requested cores and memory.
SomeShapeFits ==
    \E i \in 1..Len(FetchedCatalog) :
      /\ FetchedCatalog[i].guestCpus >= Cores(job)
      /\ FetchedCatalog[i].memoryMb >= job.mem_mb[1]
\* Some machine type with the requested cores and memory has a name that
\* starts with the job's prefix override, if one is set.
SomeCandidate ==
    \E i \in 1..Len(FetchedCatalog) :
      /\ FetchedCatalog[i].guestCpus >= Cores(job)
      /\ FetchedCatalog[i].memoryMb >= job.mem_mb[1]
      /\ TruthyStr(job.machine_type) =>
           StartsWith(FetchedCatalog[i].name, job.machine_type[1])

\* C13: a returned plan's machine type is one of the fetched catalog, has
\* at least the requested cores and memory, and its name starts with the
\* job's machine type prefix if one is given.
C13_PlanSelectsFittingShape ==
    plan.kind = "plan" =>
      LET selected == plan.selected[1]
      IN /\ InCatalog(selected)
         /\ plan.virtual_machine[1].machineType = selected.name
         /\ selected.guestCpus >= Cores(job)
         /\ selected.memoryMb >= job.mem_mb[1]
         /\ job.machine_type # None => StartsWith(selected.name, job.machine_type[1])

\* A plan whose machine type is the second of the catalog: the first one
\* has the cores and memory but not the prefix.
C13_Witness ==
    /\ plan.kind = "plan"
    /\ job.machine_type = Some(<<"n", "2">>)
    /\ Len(FetchedCatalog) = 2
    /\ Fits(FetchedCatalog[1], Cores(job), job.mem_mb[1])
    /\ plan.selected = Some(FetchedCatalog[2])
    /\ job._cores = Some(4) /\ job.mem_mb = Some(8192)

\* max(C.cpu) and max(C.mem) of a non-empty catalog
CatalogMaxCpu == SetMax({ FetchedCatalog[i].guestCpus : i \in 1..Len(FetchedCatalog) })
CatalogMaxMem == SetMax({ FetchedCatalog[i].memoryMb : i \in 1..Len(FetchedCatalog) })
\* Planning returned, with a machine type that has the requested cores and
\* memory.
ReturnedShapeFits ==
    /\ plan.kind = "plan"
    /\ plan.selected # None
    /\ plan.selected[1].guestCpus >= Cores(job)
    /\ plan.selected[1].memoryMb >= job.mem_mb[1]

\* C14: for a request with both resources and without prefix override, if
\* the requested cores are within the catalog's largest cpu count and the
\* requested memory within its largest memory, each taken on its own, then
\* planning does not fail and returns a machine type that has both.
C14_SeparateMaximaSuffice ==
    (/\ plan # NoPlan /\ HasResources /\ job.machine_type = None
     /\ FetchedCatalog # <<>>
     /\ Cores(job) <= CatalogMaxCpu /\ job.mem_mb[1] <= CatalogMaxMem) =>
      ReturnedShapeFits

\* ---------------------------------------------------------------- SpecGpu
\* Planning of one job with every combination of the gpu resources, the
\* machine type override and the state of self._machine_type_prefix, over
\* the listings of up to MaxAccelerators accelerator types; the machine
\* types all have the requested cores and memory.
MaxAccelerators == 2

T4 == <<"t", "4">>
P100 == <<"p", "1", "0", "0">>
T4VWS == <<"t", "4", "v", "w", "s">>
AcceleratorTypes == { AcceleratorType(n, m) : n \in {T4, P100, T4VWS}, m \in {1, 4} }
GpuJobs ==
    { Job(None, Some(4096), Some(1500), ng, g, gm, p, FALSE, <<"a">>) :
        ng \in {None, Some(0), Some(2)}, g \in {None, Some(1)},
        gm \in {None, Some(T4)},
        p \in {None, Some(<<"n", "1">>), Some(<<"n", "2">>)} }

InitGpu ==
    /\ job \in GpuJobs
    /\ regions = <<UsRegion>>
    /\ zones \in { <<Zone(UsZoneA, c)>> :
                     c \in Listings(Shapes(UsZoneA, {N1S, N1H, N2S}, {2}, {4096}), MaxShapes) }
    /\ accelerators \in Listings(AcceleratorTypes, MaxAccelerators)
    /\ preemptible_rules \in {Unset, Attr(Some({}))}
    /\ machine_type_prefix = Unset
    /\ _machine_type_prefix \in
         {Unset, Attr(None), Attr(Some(<<"n", "1">>)), Attr(Some(<<"n", "2">>))}
    /\ default_resources = None /\ plan = NoPlan
    /\ available_machine_types = NotFetched
    /\ RetryIdle /\ JobsIdle /\ ClassifyIdle /\ StoreIdle /\ RunIdle /\ AuxIdle

SpecGpu == InitGpu /\ [][NextPlan]_vars

\* The job asks for a gpu: by a count, or by a model.
RequestsGpu ==
    TruthyNum(job.nvidia_gpu) \/ TruthyNum(job.gpu) \/ TruthyStr(job.gpu_model)
\* The count it asks for: the one given, or one for a model alone.
RequestedCount ==
    IF TruthyNum(job.nvidia_gpu) THEN job.nvidia_gpu[1]
    ELSE IF TruthyNum(job.gpu) THEN job.gpu[1]
    ELSE 1

\* C15: a plan returned for a job that asks for a gpu has a machine type
\* whose name starts with "n1", and one accelerator entry with the
\* requested count.
C15_GpuPlanSelectsN1 ==
    (plan.kind = "plan" /\ RequestsGpu) =>
      /\ StartsWith(plan.selected[1].name, <<"n", "1">>)
      /\ Len(plan.virtual_machine[1].accelerators) = 1
      /\ plan.virtual_machine[1].accelerators[1].count = RequestedCount

\* ------------------------------------------------------------ SpecCatalog
\* get_available_machine_types for the region "us" and every list of up to
\* MaxZones zones, two of them in the region, each listing up to MaxShapes
\* machine types.
MaxZones == 2

E2S == <<"e", "2", "s">>
F1Micro == <<"f", "1", "-", "m", "i", "c", "r", "o">>
UsZoneB == <<"u", "s", "b">>
EuZoneA == <<"e", "u", "a">>
ZonesOf(name) ==
    { Zone(name, c) :
        c \in Listings(Shapes(name, {N1S, N2S, E2S, F1Micro}, {2}, {4096}), MaxShapes) }
ProviderZones ==
    ZonesOf(UsZoneA) \cup ZonesOf(UsZoneB)
      \cup {Zone(EuZoneA, <<MachineType(N1S, 2, 4096, EuZoneA)>>)}

InitCatalog ==
    /\ regions = <<UsRegion>>
    /\ zones \in { z \in Listings(ProviderZones, MaxZones) : z # <<>> }
    /\ job = NoJob /\ accelerators = <<>> /\ preemptible_rules = Unset
    /\ machine_type_prefix = Unset /\ _machine_type_prefix = Unset
    /\ default_resources = None /\ plan = NoPlan
    /\ available_machine_types = NotFetched
    /\ RetryIdle /\ JobsIdle /\ ClassifyIdle /\ StoreIdle /\ RunIdle /\ AuxIdle

\* One call of get_available_machine_types.
FetchMachineTypes ==
    /\ available_machine_types = NotFetched
    /\ available_machine_types' = GetAvailableMachineTypes
    /\ UNCHANGED <<job, regions, zones, accelerators, preemptible_rules,
                   machine_type_prefix, _machine_type_prefix, default_resources, plan>>

NextCatalog ==
    FetchMachineTypes /\ UNCHANGED <<retryVars, jobVars, classifyVars, storeVars, runVars, auxVars>>

SpecCatalog == InitCatalog /\ [][NextCatalog]_vars

\* The zones whose name starts with a requested region.
ZonesOfRegions ==
    { i \in 1..Len(zones) : \E r \in 1..Len(regions) : StartsWith(zones[i].name, regions[r]) }

\* C16: every machine type returned is listed, by name, in every zone of
\* the requested regions.
C16_ReturnedShapesAreInEveryZone ==
    available_machine_types.kind = "value" =>
      \A k \in 1..Len(available_machine_types.items) : \A i \in ZonesOfRegions :
        available_machine_types.items[k].name \in NamesOf(zones[i].items)

\* Two zones of the region; the last one lists two machine types, of which
\* the other zone lists one only, and that one alone is returned.
C16_Witness ==
    /\ available_machine_types.kind = "value"
    /\ Cardinality(ZonesOfRegions) = 2
    /\ Len(zones[2].items) = 2
    /\ Len(available_machine_types.items) = 1
    /\ available_machine_types.items[1] = zones[2].items[2]
    /\ zones[2].items[1].name \notin NamesOf(zones[1].items)
    /\ ~IsMicro(zones[2].items[1].name) /\ ~IsDiscouraged(zones[2].items[1].name)

\* C17: no machine type returned has "micro" in its name or a name that
\* starts with "e2" or "m1".
C17_NoMicroOrDiscouragedShape ==
    available_machine_types.kind = "value" =>
      \A k \in 1..Len(available_machine_types.items) :
        /\ ~IsMicro(available_machine_types.items[k].name)
        /\ ~IsDiscouraged(available_machine_types.items[k].name)

\* A prefix override is set: the job names a machine type prefix that is not
\* the empty string.
PrefixOverrideSet == job.machine_type # None /\ job.machine_type # Some(<<>>)

\* C18: planning of a request with both resources, when no machine type of
\* the catalog has the requested cores and memory and a name starting with
\* the prefix override, fails with the no-machine-type error and selects
\* nothing; the message is "prefix too strict" exactly when a prefix
\* override is set and "resources exceed the maximum" otherwise.
C18_NoCandidateFailsWithVariant ==
    (plan # NoPlan /\ HasResources /\ ~SomeCandidate) =>
      /\ plan.kind = "error" /\ plan.error = "WorkflowError"
      /\ plan.selected = None /\ plan.virtual_machine = None
      /\ plan.variant \in {"prefix too strict", "resources exceed maximum"}
      /\ plan.variant = "prefix too strict" <=> PrefixOverrideSet

\* The catalog {2 cpus / 4096 MB, 4 cpus / 8192 MB} and the request of 8
\* cores and 4096 MB without prefix: the error with the maxima variant.
C18_Witness ==
    /\ FetchedCatalog = <<MachineType(N1S, 2, 4096, UsZoneA),
                          MachineType(N1H, 4, 8192, UsZoneA)>>
    /\ job._cores = Some(8) /\ job.mem_mb = Some(4096)
    /\ job.machine_type = None
    /\ plan.kind = "error"
    /\ plan.variant = "resources exceed maximum"
    /\ plan.max_cpu = 4 /\ plan.max_mem = InitialMaxMem

\* -------------------------------------------------------------- SpecGroup
\* Planning of group jobs and single-rule jobs of up to MaxRules rules,
\* under every preemptible policy over the rule names, and on an object
\* without the attribute preemptible_rules.
MaxRules == 2

RuleNames == {"a", "b", "c"}
GroupJobs ==
    { Job(None, Some(4096), Some(1500), None, None, None, None, g, r) :
        g \in BOOLEAN, r \in SeqsUpTo(RuleNames, MaxRules) \ {<<>>} }

InitGroup ==
    /\ job \in { j \in GroupJobs : ~j.is_group => Len(j.rules) = 1 }
    /\ regions = <<UsRegion>>
    /\ zones \in { <<Zone(UsZoneA, c)>> :
                     c \in Listings(Shapes(UsZoneA, {N1S, N2S}, {2}, {4096}), MaxShapes) }
    /\ accelerators = <<>>
    /\ preemptible_rules \in {Unset} \cup { Attr(Some(P)) : P \in SUBSET RuleNames }
    /\ machine_type_prefix = Unset /\ _machine_type_prefix = Unset
    /\ default_resources = None /\ plan = NoPlan
    /\ available_machine_types = NotFetched
    /\ RetryIdle /\ JobsIdle /\ ClassifyIdle /\ StoreIdle /\ RunIdle /\ AuxIdle

SpecGroup == InitGroup /\ [][NextPlan]_vars

\* The member rules of the job that the policy makes preemptible.
PreemptibleMembers ==
    { i \in 1..Len(job.rules) : job.rules[i] \in preemptible_rules.value[1] }

\* C19: planning of a group job of which some but not all member rules are
\* preemptible fails; a plan returned for a group job has the preemptible
\* flag true iff every member rule is preemptible, and a plan returned for
\* a job of one rule has the policy's answer for that rule.
C19_PreemptibleFlagFollowsPolicy ==
    /\ (/\ plan # NoPlan /\ job.is_group /\ preemptible_rules.has
        /\ PreemptibleMembers # {} /\ PreemptibleMembers # 1..Len(job.rules)) =>
         plan.kind = "error"
    /\ (plan.kind = "plan" /\ job.is_group) =>
         /\ PreemptibleMembers \in {{}, 1..Len(job.rules)}
         /\ plan.virtual_machine[1].preemptible <=>
              (PreemptibleMembers = 1..Len(job.rules))
    /\ (plan.kind = "plan" /\ ~job.is_group) =>
         (plan.virtual_machine[1].preemptible <=>
            (job.rules[1] \in preemptible_rules.value[1]))

\* A plan with the flag set for a group of two different rules, both
\* preemptible under a policy that does not cover every rule name.
C19_Witness ==
    /\ plan.kind = "plan"
    /\ job.is_group /\ Len(job.rules) = 2 /\ job.rules[1] # job.rules[2]
    /\ preemptible_rules.has /\ preemptible_rules.value[1] # RuleNames
    /\ plan.virtual_machine[1].preemptible

\* The listed accelerator types that meet the conditions of a request for
\* RequestedCount cards: name not ending in "vws", name equal to the model
\* if one is given, and at least the requested number of cards.
Satisfying ==
    { i \in 1..Len(accelerators) :
        /\ ~EndsWith(accelerators[i].name, <<"v", "w", "s">>)
        /\ TruthyStr(job.gpu_model) => accelerators[i].name = job.gpu_model[1]
        /\ accelerators[i].maximumCardsPerInstance >= RequestedCount }
\* _get_accelerator was called: planning of a gpu job came to the
\* accelerator step.
AcceleratorCalled ==
    /\ RequestsGpu
    /\ plan.kind = "plan" \/ plan.variant \in {"no accelerator", "no accelerator of model"}

\* C20: an accelerator returned by _get_accelerator for a positive count is
\* one of the listed ones that meet the conditions, and none that meets
\* them allows fewer cards; the call fails with the no-accelerator error
\* exactly when no listed accelerator meets them.
C20_AcceleratorIsSmallestSatisfying ==
    AcceleratorCalled =>
      /\ plan.kind = "plan" =>
           /\ \E i \in Satisfying : accelerators[i] = plan.accelerator[1]
           /\ \A i \in Satisfying :
                ~(accelerators[i].maximumCardsPerInstance
                    < plan.accelerator[1].maximumCardsPerInstance)
           /\ plan.virtual_machine[1].accelerators[1].type = plan.accelerator[1].name
      /\ plan.kind = "error" <=> Satisfying = {}

\* Two accelerator types that meet the conditions are listed, the first
\* allowing more cards than the second, and the second is returned.
C20_Witness ==
    /\ plan.kind = "plan"
    /\ RequestedCount = 1
    /\ Satisfying = {1, 2}
    /\ accelerators[2].maximumCardsPerInstance < accelerators[1].maximumCardsPerInstance
    /\ plan.accelerator = Some(accelerators[2])

\* C30: when planning fails for lack of resources without a prefix override
\* over a catalog that lists machine types, the maxima stated in the error
\* are the largest cpu count and the largest memory of the catalog.
C30_StatedMaximaAreCatalogMaxima ==
    (plan.variant = "resources exceed maximum" /\ FetchedCatalog # <<>>) =>
      /\ plan.max_cpu = CatalogMaxCpu
      /\ plan.max_mem = CatalogMaxMem

\* The candidates of the selection loop: the fetched machine types with the
\* requested cores and memory whose names start with the prefix override,
\* in catalog order.
Candidates ==
    PrefixKeepers(Keepers(FetchedCatalog, Cores(job), job.mem_mb[1]), job.machine_type)
\* a has both fewer cpus and less memory than b.
StrictlySmaller(a, b) == a.guestCpus < b.guestCpus /\ a.memoryMb < b.memoryMb
SomeSmallerThanFirst ==
    \E i \in 1..Len(Candidates) : StrictlySmaller(Candidates[i], Candidates[1])

\* C26: the selected machine type is the first candidate in catalog order
\* or a candidate with both fewer cpus and less memory than the first one;
\* when no candidate has both fewer cpus and less memory than the first
\* candidate, the first candidate is selected, also when another candidate
\* is smaller or equal in one of the two.
C26_FirstKeptUnlessStrictlySmaller ==
    plan.selected # None =>
      LET selected == plan.selected[1]
      IN /\ selected = Candidates[1] \/ StrictlySmaller(selected, Candidates[1])
         /\ ~SomeSmallerThanFirst => selected = Candidates[1]

\* The second candidate has less memory but the same cpus as the first: the
\* first is selected.
C26_Witness ==
    /\ plan.kind = "plan"
    /\ Len(Candidates) = 2
    /\ Candidates[2].memoryMb < Candidates[1].memoryMb
    /\ Candidates[2].guestCpus = Candidates[1].guestCpus
    /\ plan.selected = Some(Candidates[1])

ShapeA(mt) == mt.guestCpus = 2 /\ mt.memoryMb = 4096
ShapeB(mt) == mt.guestCpus = 4 /\ mt.memoryMb = 8192
\* The catalog of two machine types A (2 cpus, 4096 MB) and B (4 cpus,
\* 8192 MB), in either order.
CatalogAB ==
    /\ Len(FetchedCatalog) = 2
    /\ \/ ShapeA(FetchedCatalog[1]) /\ ShapeB(FetchedCatalog[2])
       \/ ShapeB(FetchedCatalog[1]) /\ ShapeA(FetchedCatalog[2])

\* C27: no candidate has both fewer cpus and less memory than the selected
\* machine type; a candidate with both fewer cpus and less memory than
\* every other candidate is the selected one; over the catalog {A, B}
\* without prefix override a request of 2 cpus / 4096 MB selects A and a
\* request of 3 cpus / 4096 MB selects B, in either catalog order.
C27_NoCandidateBelowSelected ==
    plan.selected # None =>
      LET selected == plan.selected[1]
      IN /\ \A i \in 1..Len(Candidates) : ~StrictlySmaller(Candidates[i], selected)
         /\ \A i \in 1..Len(Candidates) :
              (\A k \in 1..Len(Candidates) :
                 k # i => StrictlySmaller(Candidates[i], Candidates[k]))
                => selected = Candidates[i]
         /\ (CatalogAB /\ job.machine_type = None /\ job.mem_mb = Some(4096)) =>
              /\ job._cores = Some(2) => ShapeA(selected)
              /\ job._cores = Some(3) => ShapeB(selected)

\* A is listed after B and is selected for the request of 2 cpus / 4096 MB.
C27_Witness ==
    /\ plan.kind = "plan"
    /\ CatalogAB /\ ShapeB(FetchedCatalog[1])
    /\ job.machine_type = None
    /\ job._cores = Some(2) /\ job.mem_mb = Some(4096)
    /\ plan.selected = Some(FetchedCatalog[2])

\* C25: under one permit of status_rate_limiter at most one status request
\* is executed: `trace` records the executions of the _retry_request call
\* made under the permit taken last.
C25_OneStatusRequestPerPermit ==
    (permits >= 1 /\ request.method = "operations.get") => NumExec(trace) <= 1

\* The first event of the sequence that makes the classification fail.
FirstFailing(events) ==
    events[CHOOSE i \in 1..Len(events) :
             Failing(events[i]) /\ \A k \in 1..(i - 1) : ~Failing(events[k])]
\* The job polled last was judged on a completed status and found failed.
JudgedFailed ==
    /\ idx >= 1 /\ Handled(idx)
    /\ judged # <<>> /\ judged[1].done /\ ~JobWasSuccessful(judged[1])

\* C29: the error reported for a job whose completed status was judged
\* failed carries the details of the first failing event of the status.
C29_ErrorReportCarriesFirstFailure ==
    JudgedFailed =>
      LET r == ReportsOf(active_jobs[idx])
      IN r[Len(r)].msg = Msg("event", FirstFailing(judged[1].events))

\* ---------------------------------------------------------- _set_location
\* An entry of the locations listing: locationId and name.
Location(id) == [locationId |-> id, name |-> <<"p", "/">> \o id]
\* r.split("-")[0]
BeforeDash(r) ==
    IF \E i \in 1..Len(r) : r[i] = "-"
      THEN SubSeq(r, 1, (CHOOSE i \in 1..Len(r) :
                           r[i] = "-" /\ \A k \in 1..(i - 1) : r[k] # "-") - 1)
      ELSE r
\* re.search("^(%s)" % "|".join(prefixes), id): the id starts with one of the
\* prefixes; with no prefix the pattern is "^()" and matches every id.
PrefixMatches(regs, id) ==
    regs = <<>> \/ \E i \in 1..Len(regs) : StartsWith(id, BeforeDash(regs[i]))
IdsOf(listing) == { listing[i].locationId : i \in 1..Len(listing) }
\* locations[id]
NameOf(listing, id) ==
    listing[CHOOSE i \in 1..Len(listing) : listing[i].locationId = id].name
\* The first entry, in listing order, that satisfies P.
FirstEntry(listing, P(_)) ==
    listing[CHOOSE i \in 1..Len(listing) :
              P(listing[i].locationId) /\ \A k \in 1..(i - 1) : ~P(listing[k].locationId)]
Resolved(name) == [kind |-> "value", error |-> "none", name |-> name]
NotResolved(error) == [kind |-> "error", error |-> error, name |-> <<>>]

LastStartingWith(listing, wanted) ==
    listing[CHOOSE i \in 1..Len(listing) :
              StartsWith(listing[i].locationId, wanted)
                /\ \A k \in (i + 1)..Len(listing) :
                     ~StartsWith(listing[k].locationId, wanted)].name
\* `for contender in locations: if contender.startswith(location):`
FirstStartingWith(listing, wanted) ==
    FirstEntry(listing, LAMBDA id : StartsWith(id, wanted)).name
\* `for region in self.regions: if region in locations:`
FirstListedRegion(listing, regs) ==
    regs[CHOOSE i \in 1..Len(regs) :
           regs[i] \in IdsOf(listing) /\ \A k \in 1..(i - 1) : regs[k] \notin IdsOf(listing)]

\* _set_location(location) on the listing the locations API returned.
SetLocationResult(listing, wanted, regs) ==
    IF listing = <<>>
      THEN NotResolved("no locations found")
    ELSE IF TruthyStr(wanted)
      THEN IF wanted[1] \in IdsOf(listing)
             THEN Resolved(NameOf(listing, wanted[1]))
           ELSE IF \E id \in IdsOf(listing) : StartsWith(id, wanted[1])
             THEN Resolved(FirstStartingWith(listing, wanted[1]))
           ELSE NotResolved("location not available")
    ELSE IF \E i \in 1..Len(regs) : regs[i] \in IdsOf(listing)
      THEN Resolved(NameOf(listing, FirstListedRegion(listing, regs)))
    ELSE IF \E id \in IdsOf(listing) : PrefixMatches(regs, id)
      THEN Resolved(FirstEntry(listing, LAMBDA id : PrefixMatches(regs, id)).name)
    ELSE NotResolved("no locations for regions")

\* What .list(name=...).execute() does: returns the listing, or raises.
ListOutcomes == { "ok", "HttpError", "BrokenPipeError" }

\* __init__ calls self._set_location(executor_settings.location): the
\* listing request is executed once, directly; an exception of execute() or
\* a WorkflowError of the resolution leaves __init__.
SetLocation ==
    /\ phase = "new"
    /\ direct_requests' = Append(direct_requests, "locations.list")
    /\ \E out \in ListOutcomes :
         IF out # "ok"
           THEN /\ phase' = "failed"
                /\ run_error' = out
                /\ location' = location
           ELSE LET r == SetLocationResult(locations, user_location, regions)
                IN IF r.kind = "error"
                     THEN /\ phase' = "failed"
                          /\ run_error' = r.error
                          /\ location' = location
                     ELSE /\ phase' = "ready"
                          /\ run_error' = run_error
                          /\ location' = Attr(Some(r.name))
    /\ UNCHANGED <<locations, user_location, needs_singularity, use_singularity,
                   submitted, planned>>

\* ----------------------------------------------------------------- run_job
\* result["name"].split("/")[-1]
LastSegment(name) ==
    IF \E i \in 1..Len(name) : name[i] = "/"
      THEN SubSeq(name, (CHOOSE i \in 1..Len(name) :
                           name[i] = "/" /\ \A k \in (i + 1)..Len(name) : name[k] # "/") + 1,
                  Len(name))
      ELSE name
WholeName(name) == name
ExternalJobId(name) == LastSegment(name)
NeverRefused(needs, use) == FALSE
\* `if job.needs_singularity and ...deployment_settings.use_singularity:`
SingularityRefused(needs, use) == needs /\ use

\* run_job up to the call of _retry_request: _generate_pipeline plans the
\* job's resources; then the singularity check; then pipelines.run(
\* parent=self.location, body=body) is built and handed to _retry_request.
RunStart ==
    /\ phase = "ready"
    /\ plan = NoPlan
    /\ LET out == GenerateJobResources(job)
       IN /\ plan' = out.plan
          /\ machine_type_prefix' = out.machine_type_prefix
          /\ _machine_type_prefix' = out._machine_type_prefix
          /\ default_resources' = out.default_resources
          /\ available_machine_types' = out.machine_types
          /\ IF out.plan.kind = "error"
               THEN /\ phase' = "raised"
                    /\ run_error' = out.plan.error
                    /\ UNCHANGED retryVars
               ELSE IF SingularityRefused(needs_singularity, use_singularity)
                 THEN /\ phase' = "raised"
                      /\ run_error' = "WorkflowError"
                      /\ UNCHANGED retryVars
                 ELSE /\ phase' = "submitting"
                      /\ run_error' = run_error
                      /\ RetryStart(Request("pipelines.run", 0),
                                    DefaultTimeout, DefaultAttempts)
    /\ UNCHANGED <<job, regions, zones, accelerators, preemptible_rules>>
    /\ UNCHANGED <<locations, user_location, location, direct_requests,
                   needs_singularity, use_singularity, submitted, planned>>

\* `result = self._retry_request(operation)` has returned or raised: the job
\* info is built from result["name"] and given to report_job_submission, or
\* the exception leaves run_job.
RunFinish ==
    /\ phase = "submitting"
    /\ RetryDone
    /\ IF result.kind = "value"
         THEN /\ submitted' = Append(submitted,
                                     SubmittedJobInfo(job,
                                                      ExternalJobId(result.out.body.name),
                                                      result.out.body.name))
              /\ phase' = "submitted"
              /\ run_error' = run_error
         ELSE /\ submitted' = submitted
              /\ phase' = "raised"
              /\ run_error' = result.kind
    /\ UNCHANGED <<locations, user_location, location, direct_requests,
                   needs_singularity, use_singularity, planned>>
    /\ UNCHANGED <<retryVars, planVars>>

\* ----------------------------------------------------------- SpecLocation
\* Startup on every listing of up to MaxLocations locations, with and
\* without a user location, for every list of up to MaxRegions regions;
\* then one job is submitted.
MaxLocations == 2
MaxRegions == 2

UsC == <<"u", "s", "-", "c">>
UsE == <<"u", "s", "-", "e">>
EuW == <<"e", "u", "-", "w">>
LocationEntries == { Location(id) : id \in {UsC, UsE, EuW} }
UserLocations ==
    { None, Some(<<>>), Some(UsC), Some(<<"u", "s">>), Some(<<"a", "s">>) }
RegionLists == SeqsUpTo({UsE, EuW}, MaxRegions) \ { <<>> }
\* One zone in each region, each listing the same machine type.
RegionZone(region) ==
    Zone(region \o <<"a">>, <<MachineType(N1S, 2, 4096, region \o <<"a">>)>>)
PlainJob == Job(Some(2), Some(4096), Some(1500), None, None, None, None, FALSE, <<"a">>)

InitLocation ==
    /\ locations \in Listings(LocationEntries, MaxLocations)
    /\ user_location \in UserLocations
    /\ regions \in RegionLists
    /\ location = Unset /\ direct_requests = <<>> /\ phase = "new"
    /\ needs_singularity = FALSE /\ use_singularity = FALSE
    /\ submitted = <<>> /\ run_error = "none" /\ planned = <<>>
    /\ job = PlainJob
    /\ zones = <<RegionZone(UsE), RegionZone(EuW)>>
    /\ accelerators = <<>>
    /\ preemptible_rules \in {Unset, Attr(Some({}))}
    /\ machine_type_prefix = Unset /\ _machine_type_prefix = Unset
    /\ default_resources = None /\ plan = NoPlan
    /\ available_machine_types = NotFetched
    /\ RetryIdle /\ JobsIdle /\ ClassifyIdle /\ StoreIdle /\ AuxIdle

NextLocation ==
    \/ SetLocation
         /\ UNCHANGED <<retryVars, jobVars, classifyVars, storeVars, planVars, auxVars>>
    \/ RunStart /\ UNCHANGED <<jobVars, classifyVars, storeVars, auxVars>>
    \/ RetryExecute /\ UNCHANGED <<jobVars, classifyVars, storeVars, planVars, runVars, auxVars>>
    \/ RetrySleep /\ UNCHANGED <<jobVars, classifyVars, storeVars, planVars, runVars, auxVars>>
    \/ RetryUnwind /\ UNCHANGED <<jobVars, classifyVars, storeVars, planVars, runVars, auxVars>>
    \/ RunFinish /\ UNCHANGED <<jobVars, classifyVars, storeVars, auxVars>>

SpecLocation == InitLocation /\ [][NextLocation]_vars

\* The listing request was answered and startup went on to resolve.
Listed == phase \notin {"idle", "new"} /\ run_error \notin {"HttpError", "BrokenPipeError"}
\* A user location is given (a non-empty string).
UserGiven == TruthyStr(user_location)
StartupFailed == phase = "failed" /\ ~location.has
\* self.location is the name of the i-th listed location.
LocationIs(i) == location = Attr(Some(locations[i].name))
\* The i-th listed location is the first, in listing order, whose id
\* satisfies P.
FirstWith(i, P(_)) ==
    /\ P(locations[i].locationId)
    /\ \A k \in 1..(i - 1) : ~P(locations[k].locationId)
StartsWithUser(id) == StartsWith(id, user_location[1])
StartsWithRegionPrefix(id) ==
    \E r \in 1..Len(regions) : StartsWith(id, BeforeDash(regions[r]))
\* The r-th configured region is the first that is an available id.
FirstAvailableRegion(r) ==
    /\ regions[r] \in IdsOf(locations)
    /\ \A k \in 1..(r - 1) : regions[k] \notin IdsOf(locations)

\* C23: once the locations are listed, startup has failed if none is
\* listed.  With a user location: self.location is the location with that
\* id, else the first listed whose id starts with it, else startup has
\* failed whatever the regions are.  Without one: self.location is the
\* location of the first configured region that is listed, else the first
\* listed location whose id starts with the part before the first "-" of a
\* configured region, else startup has failed.  self.location is unset or
\* the name of a listed location, and stays what startup made it while the
\* job is submitted.
C23_LocationResolvedInOrder ==
    Listed =>
      /\ locations = <<>> => StartupFailed
      /\ (locations # <<>> /\ UserGiven) =>
           IF user_location[1] \in IdsOf(locations)
             THEN \E i \in 1..Len(locations) :
                    locations[i].locationId = user_location[1] /\ LocationIs(i)
           ELSE IF \E i \in 1..Len(locations) : StartsWithUser(locations[i].locationId)
             THEN \E i \in 1..Len(locations) : FirstWith(i, StartsWithUser) /\ LocationIs(i)
           ELSE StartupFailed
      /\ (locations # <<>> /\ ~UserGiven) =>
           IF \E r \in 1..Len(regions) : regions[r] \in IdsOf(locations)
             THEN \E r \in 1..Len(regions), i \in 1..Len(locations) :
                    /\ FirstAvailableRegion(r)
                    /\ locations[i].locationId = regions[r]
                    /\ LocationIs(i)
           ELSE IF \E i \in 1..Len(locations) : StartsWithRegionPrefix(locations[i].locationId)
             THEN \E i \in 1..Len(locations) :
                    FirstWith(i, StartsWithRegionPrefix) /\ LocationIs(i)
           ELSE StartupFailed
      /\ location.has => \E i \in 1..Len(locations) : LocationIs(i)
      /\ phase \in {"ready", "submitting", "submitted", "raised"} => location.has

\* No region is listed; the second listed location is the first whose id
\* starts with a region's prefix; the job was submitted afterwards.
C23_Witness ==
    /\ phase = "submitted"
    /\ ~UserGiven
    /\ Len(locations) = 2
    /\ \A r \in 1..Len(regions) : regions[r] \notin IdsOf(locations)
    /\ ~StartsWithRegionPrefix(locations[1].locationId)
    /\ LocationIs(2)

\* C24: no request is executed outside _retry_request.
C24_NoDirectRequest == direct_requests = <<>>

\* ---------------------------------------------------------------- SpecRun
\* run_job of one job on a started executor: jobs that can be planned and
\* jobs that cannot, with and without singularity, and every course of the
\* pipelines.run request.
RunCatalog ==
    <<MachineType(N1S, 2, 4096, UsZoneA), MachineType(N1H, 4, 8192, UsZoneA)>>
RunJobs ==
    { PlainJob,
      Job(Some(2), None, Some(1500), None, None, None, None, FALSE, <<"a">>),
      Job(Some(2), Some(4096), None, None, None, None, None, FALSE, <<"a">>),
      Job(Some(8), Some(4096), Some(1500), None, None, None, None, FALSE, <<"a">>),
      Job(Some(2), Some(4096), Some(1500), Some(1), None, None, None, FALSE, <<"a">>),
      Job(Some(2), Some(4096), Some(1500), None, None, None, None, TRUE, <<"a", "b">>),
      Job(Some(2), Some(4096), Some(1500), None, None, None, None, TRUE, <<"a", "a">>) }

InitRun ==
    /\ locations = <<Location(UsC)>>
    /\ user_location = None
    /\ location = Attr(Some(Location(UsC).name))
    /\ direct_requests = <<"locations.list">>
    /\ phase = "ready"
    /\ needs_singularity \in BOOLEAN /\ use_singularity \in BOOLEAN
    /\ submitted = <<>> /\ run_error = "none" /\ planned = <<>>
    /\ job \in RunJobs
    /\ regions = <<UsRegion>>
    /\ zones = <<Zone(UsZoneA, RunCatalog)>>
    /\ accelerators \in { <<>>, <<AcceleratorType(T4, 1)>> }
    /\ preemptible_rules \in {Unset, Attr(Some({"a"}))}
    /\ machine_type_prefix = Unset
    /\ _machine_type_prefix \in {Unset, Attr(None)}
    /\ default_resources = None /\ plan = NoPlan
    /\ available_machine_types = NotFetched
    /\ RetryIdle /\ JobsIdle /\ ClassifyIdle /\ StoreIdle /\ AuxIdle

NextRun ==
    \/ RunStart /\ UNCHANGED <<jobVars, classifyVars, storeVars, auxVars>>
    \/ RetryExecute /\ UNCHANGED <<jobVars, classifyVars, storeVars, planVars, runVars, auxVars>>
    \/ RetrySleep /\ UNCHANGED <<jobVars, classifyVars, storeVars, planVars, runVars, auxVars>>
    \/ RetryUnwind /\ UNCHANGED <<jobVars, classifyVars, storeVars, planVars, runVars, auxVars>>
    \/ RunFinish /\ UNCHANGED <<jobVars, classifyVars, storeVars, auxVars>>

SpecRun == InitRun /\ [][NextRun]_vars

\* id is what follows the last "/" of name (the whole name without "/").
IsLastSegmentOf(id, name) ==
    /\ EndsWith(name, id)
    /\ \A i \in 1..Len(id) : id[i] # "/"
    /\ Len(id) < Len(name) => name[Len(name) - Len(id)] = "/"
\* The pipelines.run request was executed and its last execution answered.
RunAnswered == trace # <<>> /\ trace[Len(trace)].out.kind = "ok"

\* C21: a submission is reported only when the pipelines.run call has
\* returned, its last execution being the only one that answered; it is
\* reported once, for the job given, with the segment after the last "/" of
\* the answered operation name as external id and the whole name as
\* external_jobname.  While the call is under way, and after it raised with
\* the retry budget used up, nothing is reported.
C21_SubmissionReportedAfterRunReturned ==
    /\ Len(submitted) <= 1
    /\ phase = "submitted" <=> submitted # <<>>
    /\ submitted # <<>> =>
         LET info == submitted[1]
             name == trace[Len(trace)].out.body.name
         IN /\ RunAnswered
            /\ request.method = "pipelines.run"
            /\ \A i \in 1..(Len(trace) - 1) : ~(trace[i].op = "execute" /\ trace[i].out.kind = "ok")
            /\ info.job = job
            /\ info.aux.external_jobname = name
            /\ IsLastSegmentOf(info.external_jobid, name)
    /\ (phase = "raised" /\ request.method = "pipelines.run") =>
         /\ NumExec(trace) = DefaultAttempts + 1
         /\ \A i \in 1..Len(trace) : trace[i].op = "execute" => Failed(trace[i])
         /\ submitted = <<>>

\* The run request failed twice and was answered at the third execution;
\* the operation "p/o/7" was reported with the external id "7".
C21_Witness ==
    /\ phase = "submitted"
    /\ NumExec(trace) = 3
    /\ submitted = <<SubmittedJobInfo(job, <<"7">>, <<"p", "/", "o", "/", "7">>)>>

\* The machine types, and the accelerator types, that would do for the job.
RunKeepers ==
    PrefixKeepers(Keepers(zones[1].items, Cores(job), job.mem_mb[1]), job.machine_type)
RunAccelerators == AcceleratorKeepers(accelerators, RequestedCount, job.gpu_model)
\* The job cannot be planned: a resource is missing, no machine type or no
\* accelerator type is left, or its group is not homogenously preemptible.
Unplannable ==
    \/ job.mem_mb = None
    \/ job.disk_mb = None
    \/ RunKeepers = <<>>
    \/ RequestsGpu /\ RunAccelerators = <<>>
    \/ /\ job.is_group /\ preemptible_rules.has
       /\ NotHomogeneous(preemptible_rules.value[1], job.rules)
SingularityDemanded == needs_singularity /\ use_singularity

\* C22: when the job cannot be planned, or planning raised for another
\* reason, or the job needs singularity while singularity deployment is
\* enabled, run_job has raised once it has started, no pipelines.run
\* request was built or executed, and no submission was reported.
C22_UnplannableJobIsNotSubmitted ==
    (phase # "ready" /\ (Unplannable \/ plan.kind = "error" \/ SingularityDemanded)) =>
      /\ phase = "raised"
      /\ request = NoRequest /\ trace = <<>>
      /\ submitted = <<>>

\* The job was planned, needs singularity with singularity deployment
\* enabled, and run_job raised without a request.
C22_Witness ==
    /\ phase = "raised"
    /\ plan.kind = "plan"
    /\ SingularityDemanded
    /\ request = NoRequest

\* ------------------------------------------------------------- SpecReplan
\* Up to MaxPlans planning calls in a row on one executor, each for any of
\* a plain job, a job with a gpu request and a job with a machine type
\* override, over every catalog of up to MaxShapes machine types.
MaxPlans == 3

GpuJob == Job(Some(2), Some(4096), Some(1500), Some(1), None, None, None, FALSE, <<"a">>)
OverrideJob ==
    Job(Some(2), Some(4096), Some(1500), None, None, None, Some(<<"n", "2">>), FALSE, <<"a">>)
ReplanJobs == { PlainJob, GpuJob, OverrideJob }
Planned(j, p) == [job |-> j, plan |-> p]

\* One more call of _generate_job_resources, in the state the earlier
\* calls left behind.
PlanNext ==
    /\ Len(planned) < MaxPlans
    /\ \E j \in ReplanJobs :
         LET out == GenerateJobResources(j)
         IN /\ job' = j
            /\ plan' = out.plan
            /\ machine_type_prefix' = out.machine_type_prefix
            /\ _machine_type_prefix' = out._machine_type_prefix
            /\ default_resources' = out.default_resources
            /\ available_machine_types' = out.machine_types
            /\ planned' = Append(planned, Planned(j, out.plan))
    /\ UNCHANGED <<regions, zones, accelerators, preemptible_rules>>
    /\ UNCHANGED <<locations, user_location, location, direct_requests,
                   needs_singularity, use_singularity, phase, submitted, run_error>>

InitReplan ==
    /\ job = NoJob
    /\ regions = <<UsRegion>>
    /\ zones \in { <<Zone(UsZoneA, c)>> :
                     c \in Listings(Shapes(UsZoneA, {N1S, N2S}, CpuValues, {4096}), MaxShapes) }
    /\ accelerators = <<AcceleratorType(T4, 1)>>
    /\ preemptible_rules \in {Unset, Attr(Some({}))}
    /\ machine_type_prefix = Unset
    /\ _machine_type_prefix \in {Unset, Attr(None)}
    /\ default_resources = None /\ plan = NoPlan
    /\ available_machine_types = NotFetched
    /\ locations = <<>> /\ user_location = None /\ location = Unset
    /\ direct_requests = <<>> /\ needs_singularity = FALSE
    /\ use_singularity = FALSE /\ phase = "idle" /\ submitted = <<>>
    /\ run_error = "none" /\ planned = <<>>
    /\ RetryIdle /\ JobsIdle /\ ClassifyIdle /\ StoreIdle /\ AuxIdle

NextReplan ==
    PlanNext /\ UNCHANGED <<retryVars, jobVars, classifyVars, storeVars, auxVars>>

SpecReplan == InitReplan /\ [][NextReplan]_vars

\* C28: two planning calls for the same job over the same catalog give the
\* same result, whatever was planned before and in between.
C28_SameJobSamePlan ==
    \A i, k \in 1..Len(planned) :
      planned[i].job = planned[k].job => planned[i].plan = planned[k].plan

\* The plain job is planned, then the job with the override (which gets
\* another machine type), then the plain job again, with the first result.
C28_Witness ==
    /\ Len(planned) = 3
    /\ planned[1].job = PlainJob /\ planned[1].plan.kind = "plan"
    /\ planned[2].job = OverrideJob /\ planned[2].plan.kind = "plan"
    /\ planned[2].plan.selected # planned[1].plan.selected
    /\ planned[3] = planned[1]

\* --------------------------------------------------------- SpecInterleave
\* Two calls of _generate_job_resources on one executor whose steps
\* interleave.  A call is cut wherever it reads or writes an attribute that
\* another call writes: self.machine_type_prefix (written on line 486, read
\* on lines 518, 522, 527), the nvidia_gpu default resource (line 444) and
\* self._machine_type_prefix (lines 448-450).  ppos[i] holds the position
\* of call i and its local variables.
Calls == 1..2

\* The position `at` of a call and its locals: the machine types fetched,
\* the dictionary the prefix loop iterates over, `keepers`, and the index of
\* the next machine type the loop tests.
CallState(at, fetched, candidates, keepers, k) ==
    [at |-> at, fetched |-> fetched, candidates |-> candidates,
     keepers |-> keepers, k |-> k]
CallStart == CallState("start", NotFetched, <<>>, <<>>, 0)
At(i, at) == [ppos EXCEPT ![i].at = at]
Ended(i, p) ==
    /\ ppos' = At(i, "done")
    /\ pplans' = [pplans EXCEPT ![i] = p]

\* Lines 458-486 of call i: the resource checks and the assignment of
\* self.machine_type_prefix.
PlanAssign(i) ==
    /\ ppos[i].at = "start"
    /\ LET j == pjobs[i]
       IN IF j.mem_mb = None
            THEN /\ Ended(i, Raises("WorkflowError", "no memory resource", None, 0, 0))
                 /\ UNCHANGED machine_type_prefix
            ELSE IF j.disk_mb = None
              THEN /\ Ended(i, Raises("WorkflowError", "no disk resource", None, 0, 0))
                   /\ UNCHANGED machine_type_prefix
              ELSE /\ machine_type_prefix' = Attr(PrefixFor(j))
                   /\ ppos' = At(i, IF TruthyNum(GpuCount(j)) THEN "add_gpu" ELSE "fetch")
                   /\ pplans' = pplans
    /\ UNCHANGED <<job, regions, zones, accelerators, preemptible_rules, plan,
                   _machine_type_prefix, default_resources,
                   available_machine_types, lifecycle, terminal_reports, pjobs>>

\* Lines 489-490 and 437-446 of call i: _add_gpu sets the nvidia_gpu default
\* resource.
AddGpuResource(i) ==
    /\ ppos[i].at = "add_gpu"
    /\ default_resources' = Some(GpuCount(pjobs[i])[1])
    /\ ppos' = At(i, "gpu_prefix")
    /\ UNCHANGED <<job, regions, zones, accelerators, preemptible_rules, plan,
                   machine_type_prefix, _machine_type_prefix,
                   available_machine_types, lifecycle, terminal_reports, pjobs,
                   pplans>>

\* self._machine_type_prefix or ""
OrEmpty(value) == IF TruthyStr(value) THEN value ELSE Some(<<>>)

\* Line 448 of call i: self._machine_type_prefix = self._machine_type_prefix
\* or "" (AttributeError when the attribute is not bound).
AddGpuOrEmpty(i) ==
    /\ ppos[i].at = "gpu_prefix"
    /\ IF _machine_type_prefix.has
         THEN /\ _machine_type_prefix' = Attr(OrEmpty(_machine_type_prefix.value))
              /\ ppos' = At(i, "gpu_n1")
              /\ pplans' = pplans
         ELSE /\ Ended(i, Raises("AttributeError", "_machine_type_prefix", None, 0, 0))
              /\ UNCHANGED _machine_type_prefix
    /\ UNCHANGED <<job, regions, zones, accelerators, preemptible_rules, plan,
                   machine_type_prefix, default_resources,
                   available_machine_types, lifecycle, terminal_reports, pjobs>>

\* Lines 449-450 of call i: a prefix that does not start with "n1" is
\* replaced by "n1".
AddGpuN1(i) ==
    /\ ppos[i].at = "gpu_n1"
    /\ _machine_type_prefix' = Attr(AddGpuPrefix(_machine_type_prefix.value))
    /\ ppos' = At(i, "fetch")
    /\ UNCHANGED <<job, regions, zones, accelerators, preemptible_rules, plan,
                   machine_type_prefix, default_resources,
                   available_machine_types, lifecycle, terminal_reports, pjobs,
                   pplans>>

\* Lines 492-515 of call i: the machine types are fetched and the ones too
\* small for the job are dropped.
PlanFetch(i) ==
    /\ ppos[i].at = "fetch"
    /\ LET j == pjobs[i]
           fetched == GetAvailableMachineTypes
       IN /\ available_machine_types' = fetched
          /\ IF fetched.kind = "error"
               THEN Ended(i, Raises("UnboundLocalError", "zone", None, 0, 0))
               ELSE /\ ppos' = [ppos EXCEPT ![i] =
                                  CallState("test_prefix", fetched, <<>>,
                                            Keepers(fetched.items, Cores(j), j.mem_mb[1]),
                                            0)]
                    /\ pplans' = pplans
    /\ UNCHANGED <<job, regions, zones, accelerators, preemptible_rules, plan,
                   machine_type_prefix, _machine_type_prefix, default_resources,
                   lifecycle, terminal_reports, pjobs>>

\* Lines 518-520 of call i: `if self.machine_type_prefix:` with the value
\* the attribute holds now; the loop of line 521 starts over the keepers.
PlanTestPrefix(i) ==
    /\ ppos[i].at = "test_prefix"
    /\ LET c == ppos[i]
       IN ppos' = [ppos EXCEPT ![i] =
                     IF TruthyStr(machine_type_prefix.value)
                       THEN CallState(IF c.keepers = <<>> THEN "check" ELSE "filter",
                                      c.fetched, c.keepers, <<>>, 1)
                       ELSE CallState("check", c.fetched, c.candidates, c.keepers, c.k)]
    /\ UNCHANGED <<job, regions, zones, accelerators, preemptible_rules, plan,
                   machine_type_prefix, _machine_type_prefix, default_resources,
                   available_machine_types, lifecycle, terminal_reports, pjobs,
                   pplans>>

\* Lines 521-523 of call i, one machine type: name.startswith(
\* self.machine_type_prefix) with the value the attribute holds now; None
\* makes startswith raise TypeError.
PlanFilter(i) ==
    /\ ppos[i].at = "filter"
    /\ LET c == ppos[i]
           mt == c.candidates[c.k]
           prefix == machine_type_prefix.value
       IN IF prefix = None
            THEN Ended(i, Raises("TypeError", "startswith", None,
                                 MaxCpu(c.fetched.items), MaxMem(c.fetched.items)))
            ELSE /\ ppos' = [ppos EXCEPT ![i] =
                               CallState(IF c.k = Len(c.candidates) THEN "check" ELSE "filter",
                                         c.fetched, c.candidates,
                                         IF StartsWith(mt.name, prefix[1])
                                           THEN Append(c.keepers, mt)
                                           ELSE c.keepers,
                                         c.k + 1)]
                 /\ pplans' = pplans
    /\ UNCHANGED <<job, regions, zones, accelerators, preemptible_rules, plan,
                   machine_type_prefix, _machine_type_prefix, default_resources,
                   available_machine_types, lifecycle, terminal_reports, pjobs>>

\* Lines 526-613 of call i: without keepers the error, whose variant follows
\* the value self.machine_type_prefix holds now; otherwise the selection and
\* the virtual machine.
PlanFinish(i) ==
    /\ ppos[i].at = "check"
    /\ Ended(i, PlanTail(pjobs[i], ppos[i].fetched, ppos[i].keepers,
                         machine_type_prefix.value))
    /\ UNCHANGED <<job, regions, zones, accelerators, preemptible_rules, plan,
                   machine_type_prefix, _machine_type_prefix, default_resources,
                   available_machine_types, lifecycle, terminal_reports, pjobs>>

\* The job whose machine_type resource asks for the n1 family.
OverrideN1Job ==
    Job(Some(2), Some(4096), Some(1500), None, None, None, Some(<<"n", "1">>), FALSE, <<"a">>)
InterleaveJobs == ReplanJobs \cup {OverrideN1Job}

InitInterleave ==
    /\ pjobs \in { <<a, b>> : a \in InterleaveJobs, b \in InterleaveJobs }
    /\ ppos = <<CallStart, CallStart>>
    /\ pplans = <<NoPlan, NoPlan>>
    /\ lifecycle = <<>> /\ terminal_reports = <<>>
    /\ job = NoJob
    /\ regions = <<UsRegion>>
    /\ zones \in { <<Zone(UsZoneA, c)>> :
                     c \in Listings(Shapes(UsZoneA, {N1S, N2S}, {2}, {4096}), MaxShapes) }
    /\ accelerators = <<AcceleratorType(T4, 1)>>
    /\ preemptible_rules \in {Unset, Attr(Some({}))}
    /\ machine_type_prefix = Unset
    /\ _machine_type_prefix \in {Unset, Attr(None)}
    /\ default_resources = None /\ plan = NoPlan
    /\ available_machine_types = NotFetched
    /\ RetryIdle /\ JobsIdle /\ ClassifyIdle /\ StoreIdle /\ RunIdle

NextInterleave ==
    \/ \E i \in Calls :
         PlanAssign(i) /\ UNCHANGED <<retryVars, jobVars, classifyVars, storeVars, runVars>>
    \/ \E i \in Calls :
         AddGpuResource(i) /\ UNCHANGED <<retryVars, jobVars, classifyVars, storeVars, runVars>>
    \/ \E i \in Calls :
         AddGpuOrEmpty(i) /\ UNCHANGED <<retryVars, jobVars, classifyVars, storeVars, runVars>>
    \/ \E i \in Calls :
         AddGpuN1(i) /\ UNCHANGED <<retryVars, jobVars, classifyVars, storeVars, runVars>>
    \/ \E i \in Calls :
         PlanFetch(i) /\ UNCHANGED <<retryVars, jobVars, classifyVars, storeVars, runVars>>
    \/ \E i \in Calls :
         PlanTestPrefix(i) /\ UNCHANGED <<retryVars, jobVars, classifyVars, storeVars, runVars>>
    \/ \E i \in Calls :
         PlanFilter(i) /\ UNCHANGED <<retryVars, jobVars, classifyVars, storeVars, runVars>>
    \/ \E i \in Calls :
         PlanFinish(i) /\ UNCHANGED <<retryVars, jobVars, classifyVars, storeVars, runVars>>

SpecInterleave == InitInterleave /\ [][NextInterleave]_vars

\* What planning the job alone on this executor returns or raises.
PlanAlone(j) == GenerateJobResources(j).plan

\* C32: each of two interleaved calls ends with the plan that planning its
\* job alone gives.
C32_InterleavedPlanIsOwnPlan ==
    \A i \in Calls : ppos[i].at = "done" => pplans[i] = PlanAlone(pjobs[i])

\* ---------------------------------------------------------- SpecLifecycle
\* A job is submitted with run_job and the caller then polls the jobs
\* reported as submitted with check_active_jobs.  lifecycle[j] is the list
\* of the states the j-th submitted job went through ("submitted", then
\* "running" once it was yielded, then "success" or "error"),
\* terminal_reports[j] the list of its success and error reports.
\* MaxPolled jobs are submitted.
MaxPolled == 1

TerminalStates == {"success", "error"}
Current(j) == lifecycle[j][Len(lifecycle[j])]

\* run_job has reported its submission: the caller calls check_active_jobs
\* with the job infos reported, and calls it again with the same job infos
\* after a call that raised (none of them was reported or yielded).
PollBegin ==
    /\ pc \in {"idle", "raised"}
    /\ phase = "submitted"
    /\ Len(submitted) = MaxPolled
    /\ active_jobs' = [i \in 1..Len(submitted) |-> i]
    /\ pc' = "loop"
    /\ idx' = 0 /\ status' = <<>> /\ reports' = <<>> /\ judged' = <<>>
    /\ permits' = 0
    /\ lifecycle' = [j \in 1..Len(submitted) |-> <<"submitted">>]
    /\ terminal_reports' = [j \in 1..Len(submitted) |-> <<>>]
    /\ UNCHANGED <<terminal, cancelled, pjobs, ppos, pplans>>

InitLifecycle ==
    /\ locations = <<Location(UsC)>>
    /\ user_location = None
    /\ location = Attr(Some(Location(UsC).name))
    /\ direct_requests = <<"locations.list">>
    /\ phase = "ready"
    /\ needs_singularity = FALSE /\ use_singularity \in BOOLEAN
    /\ submitted = <<>> /\ run_error = "none" /\ planned = <<>>
    /\ job \in RunJobs
    /\ regions = <<UsRegion>>
    /\ zones = <<Zone(UsZoneA, RunCatalog)>>
    /\ accelerators = <<AcceleratorType(T4, 1)>>
    /\ preemptible_rules \in {Unset, Attr(Some({"a"}))}
    /\ machine_type_prefix = Unset
    /\ _machine_type_prefix \in {Unset, Attr(None)}
    /\ default_resources = None /\ plan = NoPlan
    /\ available_machine_types = NotFetched
    /\ RetryIdle /\ JobsIdle /\ ClassifyIdle /\ StoreIdle /\ AuxIdle

NextLifecycle ==
    \/ RunStart /\ UNCHANGED <<jobVars, classifyVars, storeVars, auxVars>>
    \/ RetryExecute /\ UNCHANGED <<jobVars, classifyVars, storeVars, planVars, runVars, auxVars>>
    \/ RetrySleep /\ UNCHANGED <<jobVars, classifyVars, storeVars, planVars, runVars, auxVars>>
    \/ RetryUnwind /\ UNCHANGED <<jobVars, classifyVars, storeVars, planVars, runVars, auxVars>>
    \/ RunFinish /\ UNCHANGED <<jobVars, classifyVars, storeVars, auxVars>>
    \/ PollBegin /\ UNCHANGED <<retryVars, classifyVars, storeVars, planVars, runVars>>
    \/ PollNext /\ UNCHANGED <<classifyVars, storeVars, planVars, runVars, auxVars>>

\* Every step of run_job and of the caller's polling is taken.
SpecLifecycle ==
    /\ InitLifecycle
    /\ [][NextLifecycle]_vars
    /\ WF_vars(NextLifecycle)

\* Job j was reported once, successful or as an error, and is in no list
\* given to check_active_jobs.
Settled(j) ==
    /\ j \in DOMAIN lifecycle
    /\ Current(j) \in TerminalStates
    /\ terminal_reports[j] = <<Current(j)>>
    /\ \A i \in 1..Len(active_jobs) : active_jobs[i] # j

\* C31: under repeated polling every submitted job is at some time reported
\* exactly once as success or as error, and from then on it stays in that
\* state, is reported no more and is not polled or yielded again.
C31_EveryJobIsSettled ==
    \A j \in 1..MaxPolled : (j \in DOMAIN lifecycle) ~> [](Settled(j))

====
